---- MODULE Spec2Model ----
(***************************************************************************)
(* Model of the image quality check of fit-up-ai (utils/imageQuality.ts,   *)
(* found in src/src/context/LocalizationContext.tsx lines 80-197).         *)
(*                                                                         *)
(* A base64 input string is modelled by what the browser makes of it:      *)
(* whether it decodes, its natural size, and the pixels that drawImage     *)
(* paints on the analysis canvas.  JavaScript numbers are modelled as      *)
(* exact rationals; the inputs are chosen so that the double arithmetic    *)
(* of the code is exact on them (scale factors that are powers of two,     *)
(* channel sums divisible by 3, no ties in the gray conversion).           *)
(***************************************************************************)
EXTENDS Integers, Sequences, FiniteSets, TLC

\* one call of checkImageQuality: where it stands, its parameter, its locals
\* and the promise it returned
VARIABLES pc, base64, img, canvas, ctx, brightness, blurVariance, promise

\* a second call of checkImageQuality in flight at the same time, the same
\* fields as a record
VARIABLE concurrent

callVars == <<pc, base64, img, canvas, ctx, brightness, blurVariance, promise>>

\* the state of the App component (src/src/App.tsx): the workflow state, the
\* stored images, the detection result and the chosen person, the error
\* string, the spinner's message and the two busy flags
VARIABLES appState, targetImage, sourceImage, detectedPeople, selectedPerson,
          error, loadingMessage, isFetchingUrl, isPasting

\* the upload handler in flight and the people detection in flight
VARIABLES handler, detection

\* the event of ImageUploader that handed over the last file
VARIABLE uploader

\* the rest of the state of App: the garment box, the generated image and
\* the history; the runs of performVirtualTryOn in flight; what the browser's
\* database holds; the dependency values that the effects last ran with; and
\* whether loadInitialData has settled
VARIABLES sourceGarmentBox, generatedImage, history, runs, db, effectsRan,
          mounted

\* what the upload handlers never assign
Workflow == <<sourceGarmentBox, generatedImage, history, runs, db, effectsRan,
              mounted>>

appVars == <<appState, targetImage, sourceImage, detectedPeople, selectedPerson,
             error, loadingMessage, isFetchingUrl, isPasting, handler,
             detection, uploader, Workflow>>

vars == <<pc, base64, img, canvas, ctx, brightness, blurVariance, promise,
          concurrent, appState, targetImage, sourceImage, detectedPeople,
          selectedPerson, error, loadingMessage, isFetchingUrl, isPasting,
          handler, detection, uploader, sourceGarmentBox, generatedImage,
          history, runs, db, effectsRan, mounted>>

\* ---------------------------------------------------------------- constants
MIN_RESOLUTION_WIDTH == 300
MIN_RESOLUTION_HEIGHT == 300
DARKNESS_THRESHOLD == 70
BLUR_THRESHOLD == 100
\* the longest side of the analysis canvas (the literal 500 of the scale)
MAX_ANALYSIS_SIDE == 500

\* ------------------------------------------------------------------ bounds
\* every bitmap over {Black, White} of at most TinyPixels pixels, of every
\* shape, is an input
TinyPixels == 9

\* at most MaxPending calls of detectPeopleInImage are in flight
MaxPending == 2

\* at most MaxRuns runs of performVirtualTryOn are in flight
MaxRuns == 1

\* at most MaxRequests runs of performVirtualTryOn are in flight in the
\* version that keeps HISTORY_KEY
MaxRequests == 2

\* the database takes at most MaxHistory items of history
MaxHistory == 1

\* ------------------------------------------------------------------ pixels
\* an RGBA pixel as getImageData returns it: <<r, g, b, a>>
Gray(v) == <<v, v, v, 255>>
Black == Gray(0)
White == Gray(255)
Red == <<255, 0, 0, 255>>
Blue == <<0, 0, 255, 255>>
HalfGray == <<128, 128, 128, 128>>

\* ------------------------------------------------------- JavaScript values
\* an optional value: <<>> while a local has not been assigned, <<v>> after
NoValue == <<>>
Some(v) == <<v>>

\* a completion of a piece of code: a returned value or a thrown exception
Return(v) == [completion |-> "return", value |-> <<v>>]
Throw == [completion |-> "throw", value |-> <<>>]

\* a number as the exact rational num / den, den > 0
Rat(n, d) == [num |-> n, den |-> d]
RatLess(q, k) == q.num < k * q.den

Max(a, b) == IF a > b THEN a ELSE b

\* wide naturals (JavaScript doubles hold the sums of squares exactly where
\* a 32-bit integer cannot): six limbs, least significant first
Limb == 2^15

Carry(t) ==
    LET v2 == t[2] + (t[1] \div Limb)
        v3 == t[3] + (v2 \div Limb)
        v4 == t[4] + (v3 \div Limb)
        v5 == t[5] + (v4 \div Limb)
        v6 == t[6] + (v5 \div Limb)
    IN  <<t[1] % Limb, v2 % Limb, v3 % Limb, v4 % Limb, v5 % Limb, v6>>

BigZero == <<0, 0, 0, 0, 0, 0>>

BigOfNat(n) == Carry(<<n, 0, 0, 0, 0, 0>>)

BigAdd(x, y) ==
    Carry(<<x[1] + y[1], x[2] + y[2], x[3] + y[3],
            x[4] + y[4], x[5] + y[5], x[6] + y[6]>>)

\* d * d for |d| < 2^30
BigSquare(d) ==
    LET a == IF d < 0 THEN 0 - d ELSE d
        hi == a \div Limb
        lo == a % Limb
    IN  Carry(<<lo * lo, 2 * hi * lo, hi * hi, 0, 0, 0>>)

\* x * m for 0 <= m < Limb
BigTimesLimb(x, m) ==
    Carry(<<x[1] * m, x[2] * m, x[3] * m, x[4] * m, x[5] * m, x[6] * m>>)

BigShift(x) == <<0, x[1], x[2], x[3], x[4], x[5] + Limb * x[6]>>

\* x * n for 0 <= n < 2^30
BigTimes(x, n) ==
    BigAdd(BigTimesLimb(x, n % Limb), BigShift(BigTimesLimb(x, n \div Limb)))

BigLess(x, y) ==
    \/ x[6] < y[6]
    \/ x[6] = y[6] /\ x[5] < y[5]
    \/ x[6] = y[6] /\ x[5] = y[5] /\ x[4] < y[4]
    \/ x[6] = y[6] /\ x[5] = y[5] /\ x[4] = y[4] /\ x[3] < y[3]
    \/ x[6] = y[6] /\ x[5] = y[5] /\ x[4] = y[4] /\ x[3] = y[3] /\ x[2] < y[2]
    \/ x[6] = y[6] /\ x[5] = y[5] /\ x[4] = y[4] /\ x[3] = y[3] /\ x[2] = y[2]
       /\ x[1] < y[1]

\* a wide rational num / den compared with the integer k
BigRatLess(q, k) == BigLess(q.num, BigTimesLimb(q.den, k))

\* the value a Uint8ClampedArray stores for the number n / d (n >= 0, d > 0):
\* rounded to the nearest integer, ties to even, clamped to 0..255
ToUint8Clamp(n, d) ==
    LET f == n \div d
        r == n % d
        v == IF 2 * r > d \/ (2 * r = d /\ f % 2 = 1) THEN f + 1 ELSE f
    IN  IF v > 255 THEN 255 ELSE v

\* the value an unsigned long attribute stores for the number n / d >= 0:
\* the fraction is dropped
\* a conversion that rounds to the nearest integer (Math.round)
ToUnsignedLongRounded(n, d) == (2 * n + d) \div (2 * d)

ToUnsignedLong(n, d) == n \div d

\* a loop that accumulates f[lo] + ... + f[hi]; the range is halved instead
\* of walked so that long loops need no deep recursion (the values are exact,
\* so the order of the additions does not matter)
RECURSIVE SumOver(_, _, _)
SumOver(f, lo, hi) ==
    IF lo > hi THEN 0
    ELSE IF lo = hi THEN f[lo]
    ELSE LET mid == (lo + hi) \div 2
         IN  SumOver(f, lo, mid) + SumOver(f, mid + 1, hi)

RECURSIVE BigSumOver(_, _, _)
BigSumOver(f, lo, hi) ==
    IF lo > hi THEN BigZero
    ELSE IF lo = hi THEN f[lo]
    ELSE LET mid == (lo + hi) \div 2
         IN  BigAdd(BigSumOver(f, lo, mid), BigSumOver(f, mid + 1, hi))

\* ------------------------------------------------------------------ inputs
\* what a base64 string is to the browser: valid = whether it decodes, the
\* natural size of the decoded image, and the picture that drawImage paints
\* on the analysis canvas (kind, c1, c2, px)
Undecodable(k) ==
    [valid |-> FALSE, naturalWidth |-> 0, naturalHeight |-> 0,
     kind |-> k, c1 |-> Black, c2 |-> Black, px |-> <<>>]
Solid(w, h, c) ==
    [valid |-> TRUE, naturalWidth |-> w, naturalHeight |-> h,
     kind |-> "solid", c1 |-> c, c2 |-> c, px |-> <<>>]
Checker(w, h, a, b) ==
    [valid |-> TRUE, naturalWidth |-> w, naturalHeight |-> h,
     kind |-> "checker", c1 |-> a, c2 |-> b, px |-> <<>>]
Bitmap(w, h, p) ==
    [valid |-> TRUE, naturalWidth |-> w, naturalHeight |-> h,
     kind |-> "bitmap", c1 |-> Black, c2 |-> Black, px |-> p]

\* the pixel that drawImage(img, 0, 0, width, height) leaves at (x, y) of a
\* canvas that is width pixels wide
drawImage(image, width, x, y) ==
    CASE image.kind = "solid" -> image.c1
      [] image.kind = "checker" -> IF (x + y) % 2 = 0 THEN image.c1 ELSE image.c2
      [] OTHER -> image.px[y * width + x + 1]

\* a JavaScript array given by its elements f, element i (counted from 0)
\* being f[i + 1], as the sequence of its elements; At(a, i) is a[i]
TypedArray(f) == f \o <<>>
At(a, i) == a[i + 1]

\* context.getImageData(0, 0, width, height) throws IndexSizeError when a
\* side is 0
getImageDataThrows(width, height) == width = 0 \/ height = 0

\* and otherwise returns the pixels in row order (element i is the RGBA of
\* pixel i, the four bytes data[4i] .. data[4i + 3])
getImageData(image, width, height) ==
    TypedArray([k \in 1..(width * height) |->
                 LET i == k - 1 IN drawImage(image, width, i % width, i \div width)])

\* a gray buffer that holds the average of the three channels
GrayBufferAverage(data, width, height) ==
    TypedArray([k \in 1..(width * height) |->
                 LET i == k - 1 IN ToUint8Clamp(At(data, i)[1] + At(data, i)[2]
                                       + At(data, i)[3], 3)])

\* the gray buffer of calculateLaplacianVariance
GrayBuffer(data, width, height) ==
    TypedArray([k \in 1..(width * height) |->
                 LET i == k - 1 IN ToUint8Clamp(299 * At(data, i)[1] + 587 * At(data, i)[2]
                                       + 114 * At(data, i)[3], 1000)])

\* a laplacian computed at every pixel, the neighbours of a border pixel
\* taken from the nearest pixel inside the raster
LaplacianBufferEdges(gray, width, height) ==
    TypedArray([k \in 1..(width * height) |->
                 LET i == k - 1 IN
                 LET x == i % width
                     y == i \div width
                     up == IF y = 0 THEN 0 ELSE y - 1
                     down == IF y = height - 1 THEN y ELSE y + 1
                     left == IF x = 0 THEN 0 ELSE x - 1
                     right == IF x = width - 1 THEN x ELSE x + 1
                 IN  4 * At(gray, i) - At(gray, up * width + x)
                     - At(gray, down * width + x)
                     - At(gray, y * width + left)
                     - At(gray, y * width + right)])

\* a laplacian whose centre weight is 3
LaplacianBufferWeight3(gray, width, height) ==
    TypedArray([k \in 1..(width * height) |->
                 LET i == k - 1 IN
                 LET x == i % width
                     y == i \div width
                 IN  IF 1 <= y /\ y < height - 1 /\ 1 <= x /\ x < width - 1
                     THEN 3 * At(gray, i) - At(gray, (y - 1) * width + x)
                          - At(gray, (y + 1) * width + x)
                          - At(gray, y * width + (x - 1))
                          - At(gray, y * width + (x + 1))
                     ELSE 0])

\* a laplacian that reads the four diagonal neighbours
LaplacianBufferDiagonal(gray, width, height) ==
    TypedArray([k \in 1..(width * height) |->
                 LET i == k - 1 IN
                 LET x == i % width
                     y == i \div width
                 IN  IF 1 <= y /\ y < height - 1 /\ 1 <= x /\ x < width - 1
                     THEN 4 * At(gray, i) - At(gray, (y - 1) * width + (x - 1))
                          - At(gray, (y + 1) * width + (x + 1))
                          - At(gray, (y + 1) * width + (x - 1))
                          - At(gray, (y - 1) * width + (x + 1))
                     ELSE 0])

\* the laplacian buffer: zero-filled, the interior pixels assigned
LaplacianBuffer(gray, width, height) ==
    TypedArray([k \in 1..(width * height) |->
                 LET i == k - 1 IN
                 LET x == i % width
                     y == i \div width
                 IN  IF 1 <= y /\ y < height - 1 /\ 1 <= x /\ x < width - 1
                     THEN 4 * At(gray, i) - At(gray, (y - 1) * width + x)
                          - At(gray, (y + 1) * width + x)
                          - At(gray, y * width + (x - 1))
                          - At(gray, y * width + (x + 1))
                     ELSE 0])

\* the variable sum after the loops over the interior rows and columns
LaplacianSum(laplacian, width, height) ==
    LET row == [y \in 1..(height - 2) |->
                   SumOver(laplacian, y * width + 2, y * width + width - 1)]
    IN  SumOver(row, 1, height - 2)

\* a variance whose last division is by the number of interior pixels
calculateLaplacianVarianceInterior(image, width, height) ==
    LET data == getImageData(image, width, height)
        n == width * height
        interior == Max(width - 2, 0) * Max(height - 2, 0)
        gray == GrayBuffer(data, width, height)
        laplacian == LaplacianBuffer(gray, width, height)
        sum == LaplacianSum(laplacian, width, height)
        sq == TypedArray([k \in 1..n |->
                 LET i == k - 1 IN BigSquare(n * At(laplacian, i) - sum)])
        varianceSum == BigSumOver(sq, 1, n)
    IN  IF getImageDataThrows(width, height) THEN Throw
        ELSE Return([num |-> varianceSum,
                     den |-> BigTimes(BigTimes(BigOfNat(interior), n), n)])

\* mean = sum / (width * height); every entry adds (laplacian[i] - mean)^2 =
\* (n * laplacian[i] - sum)^2 / n^2; the result is that sum / n
calculateLaplacianVariance(image, width, height) ==
    LET data == getImageData(image, width, height)
        n == width * height
        gray == GrayBuffer(data, width, height)
        laplacian == LaplacianBuffer(gray, width, height)
        sum == LaplacianSum(laplacian, width, height)
        sq == TypedArray([k \in 1..n |->
                 LET i == k - 1 IN BigSquare(n * At(laplacian, i) - sum)])
        varianceSum == BigSumOver(sq, 1, n)
    IN  IF getImageDataThrows(width, height) THEN Throw
        ELSE Return([num |-> varianceSum,
                     den |-> BigTimes(BigTimes(BigOfNat(n), n), n)])

\* colorSum adds (r + g + b) / 3 per pixel; the result is colorSum / numPixels
calculateAverageBrightness(image, width, height) ==
    LET data == getImageData(image, width, height)
        numPixels == width * height
        rgb == TypedArray([k \in 1..numPixels |->
                 LET i == k - 1 IN At(data, i)[1] + At(data, i)[2] + At(data, i)[3]])
        colorSum == Rat(SumOver(rgb, 1, numPixels), 3)
    IN  IF getImageDataThrows(width, height) THEN Throw
        ELSE Return(Rat(colorSum.num, colorSum.den * numPixels))

\* a loader that resolves with the image element on onerror too
loadImageAlwaysResolves(b64) == Return(b64)

\* loadImage: resolves with the image on onload, rejects on onerror
loadImage(b64) == IF b64.valid THEN Return(b64) ELSE Throw

\* a verdict whose isOk was taken before the checks ran
QualityResultStale(issues) == [isOk |-> TRUE, issues |-> issues]

QualityResult(issues) == [isOk |-> Len(issues) = 0, issues |-> issues]

\* a scale capped at one half (0.5 for 1 in Math.min)
ScaleHalf(image) ==
    LET longest == Max(image.naturalWidth, image.naturalHeight)
    IN  IF 2 * MAX_ANALYSIS_SIDE < longest THEN Rat(MAX_ANALYSIS_SIDE, longest)
        ELSE Rat(1, 2)

\* scale = Math.min(1, 500 / Math.max(naturalWidth, naturalHeight))
Scale(image) ==
    LET longest == Max(image.naturalWidth, image.naturalHeight)
    IN  IF MAX_ANALYSIS_SIDE < longest THEN Rat(MAX_ANALYSIS_SIDE, longest)
        ELSE Rat(1, 1)

\* the canvas of the analysis: its sides are unsigned long attributes
CreateCanvas(image) ==
    LET scale == Scale(image)
    IN  [width |-> ToUnsignedLong(image.naturalWidth * scale.num, scale.den),
         height |-> ToUnsignedLong(image.naturalHeight * scale.num, scale.den)]

\* the resolution check applied to the sides of the analysis canvas
ResolutionCheckOnCanvas(image, issues) ==
    IF \/ CreateCanvas(image).width < MIN_RESOLUTION_WIDTH
       \/ CreateCanvas(image).height < MIN_RESOLUTION_HEIGHT
    THEN Append(issues, "low-resolution")
    ELSE issues

\* a resolution check on an issues list that is shared by all calls and
\* never emptied: it starts from the issues of a verdict already returned
ResolutionCheckShared(image, issues) ==
    LET kept == IF pc = "returned" THEN promise.value[1].issues
                ELSE IF concurrent.pc = "returned"
                     THEN concurrent.promise.value[1].issues
                     ELSE issues
    IN  IF \/ image.naturalWidth < MIN_RESOLUTION_WIDTH
           \/ image.naturalHeight < MIN_RESOLUTION_HEIGHT
        THEN Append(kept, "low-resolution")
        ELSE kept

\* 1. Resolution Check
ResolutionCheck(image, issues) ==
    IF \/ image.naturalWidth < MIN_RESOLUTION_WIDTH
       \/ image.naturalHeight < MIN_RESOLUTION_HEIGHT
    THEN Append(issues, "low-resolution")
    ELSE issues

\* a brightness check that puts its issue first (unshift for push)
BrightnessCheckUnshift(value, issues) ==
    IF RatLess(value, DARKNESS_THRESHOLD) THEN <<"too-dark">> \o issues
    ELSE issues

\* a brightness check whose threshold is inclusive (<= for <)
BrightnessCheckInclusive(value, issues) ==
    IF value.num <= DARKNESS_THRESHOLD * value.den THEN Append(issues, "too-dark")
    ELSE issues

\* a brightness check on a brightness shared by all calls: while a call
\* that measured one has not been collected, its value is used
BrightnessCheckShared(value, issues) ==
    LET held == IF pc = "returned" /\ brightness # NoValue THEN brightness[1]
                ELSE IF concurrent.pc = "returned"
                        /\ concurrent.brightness # NoValue
                     THEN concurrent.brightness[1]
                     ELSE value
    IN  IF RatLess(held, DARKNESS_THRESHOLD) THEN Append(issues, "too-dark")
        ELSE issues

\* 2. Brightness Check
BrightnessCheck(value, issues) ==
    IF RatLess(value, DARKNESS_THRESHOLD) THEN Append(issues, "too-dark")
    ELSE issues

\* a blur check whose threshold is inclusive (<= for <)
BlurCheckInclusive(value, issues) ==
    IF ~BigLess(BigTimesLimb(value.den, BLUR_THRESHOLD), value.num)
    THEN Append(issues, "blurry")
    ELSE issues

\* a blur check that is skipped once an issue has been found
BlurCheckIfClean(value, issues) ==
    IF Len(issues) = 0 /\ BigRatLess(value, BLUR_THRESHOLD)
    THEN Append(issues, "blurry")
    ELSE issues

\* 3. Blur Check
BlurCheck(value, issues) ==
    IF BigRatLess(value, BLUR_THRESHOLD) THEN Append(issues, "blurry")
    ELSE issues

\* a try block in which a missing context is an exception (throw for the
\* return of line 174)
TryBlockContextThrows(image, contextAvailable) ==
    LET issues1 == ResolutionCheck(image, <<>>)
        cv == CreateCanvas(image)
        locals == [outcome |-> Throw, canvas |-> Some(cv), ctx |-> "null",
                   brightness |-> NoValue, blurVariance |-> NoValue]
    IN  IF ~contextAvailable
        THEN locals
        ELSE
          LET b == calculateAverageBrightness(image, cv.width, cv.height)
          IN  IF b.completion = "throw" THEN [locals EXCEPT !.ctx = "2d"]
              ELSE
                LET issues2 == BrightnessCheck(b.value[1], issues1)
                    v == calculateLaplacianVariance(image, cv.width, cv.height)
                IN  IF v.completion = "throw"
                    THEN [locals EXCEPT !.ctx = "2d", !.brightness = b.value]
                    ELSE [locals EXCEPT
                            !.ctx = "2d", !.brightness = b.value,
                            !.blurVariance = v.value,
                            !.outcome = Return(QualityResult(
                                            BlurCheck(v.value[1], issues2)))]

\* the try block once loadImage has resolved with image; contextAvailable
\* tells whether canvas.getContext('2d') returns a context.  The result
\* holds the completion of the block and the locals it has assigned.
TryBlock(image, contextAvailable) ==
    LET issues1 == ResolutionCheck(image, <<>>)
        cv == CreateCanvas(image)
        locals == [outcome |-> Throw, canvas |-> Some(cv), ctx |-> "null",
                   brightness |-> NoValue, blurVariance |-> NoValue]
    IN  IF ~contextAvailable
        THEN [locals EXCEPT !.outcome = Return(QualityResult(issues1))]
        ELSE
          LET b == calculateAverageBrightness(image, cv.width, cv.height)
          IN  IF b.completion = "throw" THEN [locals EXCEPT !.ctx = "2d"]
              ELSE
                LET issues2 == BrightnessCheck(b.value[1], issues1)
                    v == calculateLaplacianVariance(image, cv.width, cv.height)
                IN  IF v.completion = "throw"
                    THEN [locals EXCEPT !.ctx = "2d", !.brightness = b.value]
                    ELSE [locals EXCEPT
                            !.ctx = "2d", !.brightness = b.value,
                            !.blurVariance = v.value,
                            !.outcome = Return(QualityResult(
                                            BlurCheck(v.value[1], issues2)))]

\* a catch block that throws the error on
CatchBlockRethrow == Throw

\* a catch block that reports the failure as an issue
CatchBlockReports == Return([isOk |-> FALSE, issues |-> <<"blurry">>])

\* the catch block: whatever was thrown, the check accepts
CatchBlock == Return([isOk |-> TRUE, issues |-> <<>>])

\* the promise of an async function that completed
Settled(outcome) ==
    IF outcome.completion = "return"
    THEN [status |-> "fulfilled", value |-> outcome.value]
    ELSE [status |-> "rejected", value |-> <<>>]

\* checkImageQuality from the moment loadImage settles with loaded
checkImageQuality(loaded, contextAvailable) ==
    IF loaded.completion = "throw"
    THEN [promise |-> Settled(CatchBlock), img |-> NoValue, canvas |-> NoValue,
          ctx |-> "unset", brightness |-> NoValue, blurVariance |-> NoValue]
    ELSE LET image == loaded.value[1]
             t == TryBlock(image, contextAvailable)
         IN  [promise |-> Settled(IF t.outcome.completion = "throw"
                                  THEN CatchBlock ELSE t.outcome),
              img |-> Some([naturalWidth |-> image.naturalWidth,
                            naturalHeight |-> image.naturalHeight]),
              canvas |-> t.canvas, ctx |-> t.ctx,
              brightness |-> t.brightness, blurVariance |-> t.blurVariance]

\* ----------------------------------------------------------- the input set
TinyShapes ==
    {s \in (1..TinyPixels) \X (1..TinyPixels) : s[1] * s[2] <= TinyPixels}

TinyBitmaps ==
    UNION {{Bitmap(s[1], s[2], p) : p \in [1..(s[1] * s[2]) -> {Black, White}]} :
              s \in TinyShapes}

SolidColours == {Black, Gray(69), Gray(70), Gray(128), White, Red, Blue, HalfGray}

\* natural sizes; a side above 500 is 500 times a power of two, so that the
\* scale is a number a double holds exactly
StripSizes == {<<299, 32000>>, <<300, 32000>>, <<32000, 299>>, <<32000, 300>>}
PlainSizes == {<<100, 100>>, <<300, 300>>, <<500, 100>>, <<2000, 400>>,
               <<1000, 3>>}
ThinSizes == {<<2000, 1>>, <<1, 2000>>, <<32000, 63>>}

Solids ==
    {Solid(s[1], s[2], c) : s \in StripSizes, c \in SolidColours}
    \cup {Solid(s[1], s[2], c) : s \in PlainSizes \cup ThinSizes,
                                 c \in {Black, Gray(128)}}
    \cup {Solid(1000, 333, Gray(128))}

Checkers ==
    {Checker(4, 4, Gray(d), Black) : d \in {4, 5, 6}}
    \cup {Checker(12, 12, Gray(d), Black) : d \in {2, 3, 4}}
    \cup {Checker(s[1], s[2], Black, White) :
             s \in StripSizes \cup {<<100, 100>>, <<300, 300>>, <<2000, 1>>}}
    \cup {Checker(s[1], s[2], Gray(5), Black) : s \in StripSizes}
    \cup {Checker(300, 300, White, Black), Checker(400, 300, Black, White)}

Inputs ==
    {Undecodable("empty"), Undecodable("garbage")}
    \cup TinyBitmaps \cup Solids \cup Checkers

\* ----------------------------------------------------------------- actions
Pending == [status |-> "pending", value |-> <<>>]

\* no call in progress, as a record of the fields of a call
IdleCall ==
    [pc |-> "idle", base64 |-> NoValue, img |-> NoValue, canvas |-> NoValue,
     ctx |-> "unset", brightness |-> NoValue, blurVariance |-> NoValue,
     promise |-> Pending]

\* no upload handler has run
NoHandler ==
    [name |-> "none", pc |-> "done", input |-> NoValue, blob |-> NoValue,
     imageSetter |-> "none", nextState |-> "IDLE", called |-> FALSE,
     qualityResult |-> NoValue,
     before |-> [targetImage |-> NoValue, sourceImage |-> NoValue,
                 appState |-> "IDLE"]]

\* the database of a first visit
EmptyDb == [session |-> NoValue, history |-> <<>>]

\* the dependency values of the effects at the first render
InitialDeps ==
    [appState |-> "IDLE", targetImage |-> NoValue, sourceImage |-> NoValue,
     detectedPeople |-> <<>>, selectedPerson |-> NoValue,
     sourceGarmentBox |-> NoValue, history |-> <<>>]

\* enum AppState, in the order of its members
AppState ==
    <<"IDLE", "ANALYZING_TARGET_IMAGE", "TARGET_PERSON_CHOOSING",
      "TARGET_PERSON_SELECTED", "SOURCE_TYPE_CHOSEN", "SOURCE_IMAGE_UPLOADED",
      "GARMENT_SELECTED", "GENERATING", "RESULT_READY", "ERROR">>

\* the useState initial values of App, loadInitialData under way
AppInit ==
    /\ appState = "IDLE"
    /\ targetImage = NoValue
    /\ sourceImage = NoValue
    /\ detectedPeople = <<>>
    /\ selectedPerson = NoValue
    /\ error = NoValue
    /\ loadingMessage = <<>>
    /\ isFetchingUrl = FALSE
    /\ isPasting = FALSE
    /\ handler = NoHandler
    /\ detection = 0
    /\ uploader = "none"
    /\ sourceGarmentBox = NoValue
    /\ generatedImage = NoValue
    /\ history = <<>>
    /\ runs = <<>>
    /\ db = EmptyDb
    /\ effectsRan = InitialDeps
    /\ mounted = "loading"

Init ==
    /\ pc = "idle"
    /\ base64 = NoValue
    /\ img = NoValue
    /\ canvas = NoValue
    /\ ctx = "unset"
    /\ brightness = NoValue
    /\ blurVariance = NoValue
    /\ promise = Pending
    /\ concurrent = IdleCall
    /\ AppInit

\* a caller invokes checkImageQuality(b64): the function runs up to the
\* await of loadImage
Call(b64) ==
    /\ pc = "idle"
    /\ pc' = "loading"
    /\ base64' = Some(b64)
    /\ img' = NoValue
    /\ canvas' = NoValue
    /\ ctx' = "unset"
    /\ brightness' = NoValue
    /\ blurVariance' = NoValue
    /\ promise' = Pending

\* the rest of the function, from the settled loadImage to the return
Resume(loaded, contextAvailable) ==
    \E r \in {checkImageQuality(loaded, contextAvailable)} :
        /\ pc' = "returned"
        /\ img' = r.img
        /\ canvas' = r.canvas
        /\ ctx' = r.ctx
        /\ brightness' = r.brightness
        /\ blurVariance' = r.blurVariance
        /\ promise' = r.promise
        /\ UNCHANGED base64

\* img.onload
ImageOnload ==
    /\ pc = "loading"
    /\ loadImage(base64[1]).completion = "return"
    /\ \E contextAvailable \in BOOLEAN :
          Resume(loadImage(base64[1]), contextAvailable)

\* img.onerror
ImageOnerror ==
    /\ pc = "loading"
    /\ loadImage(base64[1]).completion = "throw"
    /\ Resume(loadImage(base64[1]), TRUE)

\* the caller's await takes the verdict; the call's locals are gone
AwaitResult ==
    /\ pc = "returned"
    /\ pc' = "idle"
    /\ base64' = NoValue
    /\ img' = NoValue
    /\ canvas' = NoValue
    /\ ctx' = "unset"
    /\ brightness' = NoValue
    /\ blurVariance' = NoValue
    /\ promise' = Pending

\* one call at a time
Next ==
    \/ \E b64 \in Inputs : Call(b64) /\ UNCHANGED <<concurrent, appVars>>
    \/ ImageOnload /\ UNCHANGED <<concurrent, appVars>>
    \/ ImageOnerror /\ UNCHANGED <<concurrent, appVars>>
    \/ AwaitResult /\ UNCHANGED <<concurrent, appVars>>

Spec == Init /\ [][Next]_vars

\* ------------------------------------------------------ two calls in flight
\* the same steps for the second call
CallConcurrent(b64) ==
    /\ concurrent.pc = "idle"
    /\ concurrent' = [IdleCall EXCEPT !.pc = "loading", !.base64 = Some(b64)]

ResumeConcurrent(loaded, contextAvailable) ==
    \E r \in {checkImageQuality(loaded, contextAvailable)} :
        concurrent' = [pc |-> "returned", base64 |-> concurrent.base64,
                       img |-> r.img, canvas |-> r.canvas, ctx |-> r.ctx,
                       brightness |-> r.brightness,
                       blurVariance |-> r.blurVariance, promise |-> r.promise]

ImageOnloadConcurrent ==
    /\ concurrent.pc = "loading"
    /\ loadImage(concurrent.base64[1]).completion = "return"
    /\ \E contextAvailable \in BOOLEAN :
          ResumeConcurrent(loadImage(concurrent.base64[1]), contextAvailable)

ImageOnerrorConcurrent ==
    /\ concurrent.pc = "loading"
    /\ loadImage(concurrent.base64[1]).completion = "throw"
    /\ ResumeConcurrent(loadImage(concurrent.base64[1]), TRUE)

AwaitResultConcurrent ==
    /\ concurrent.pc = "returned"
    /\ concurrent' = IdleCall

\* the inputs of the two calls: one that does not decode, a pixel, a small
\* bitmap with an edge, a thin image whose pixels cannot be read, a
\* checkerboard at the blur threshold, and two long strips on either side of
\* the minimum resolution
PairInputs ==
    {Undecodable("garbage"),
     Bitmap(1, 1, <<Black>>),
     Bitmap(3, 3, <<Black, Black, Black, Black, White, Black, Black, Black, Black>>),
     Solid(2000, 1, Black),
     Checker(4, 4, Gray(5), Black),
     Solid(299, 32000, Gray(128)),
     Checker(300, 32000, Black, White)}

\* two calls whose steps interleave in every order
NextPair ==
    \/ \E b64 \in PairInputs : Call(b64) /\ UNCHANGED <<concurrent, appVars>>
    \/ ImageOnload /\ UNCHANGED <<concurrent, appVars>>
    \/ ImageOnerror /\ UNCHANGED <<concurrent, appVars>>
    \/ AwaitResult /\ UNCHANGED <<concurrent, appVars>>
    \/ \E b64 \in PairInputs : CallConcurrent(b64) /\ UNCHANGED <<callVars, appVars>>
    \/ ImageOnloadConcurrent /\ UNCHANGED <<callVars, appVars>>
    \/ ImageOnerrorConcurrent /\ UNCHANGED <<callVars, appVars>>
    \/ AwaitResultConcurrent /\ UNCHANGED <<callVars, appVars>>

SpecPair == Init /\ [][NextPair]_vars

\* ----------------------------------------------------------------- the App
\* t(key, replacements) of the localization context: the translation of key,
\* or key itself, with each {{name}} replaced; what the locale makes of a
\* key is left open, so a translated piece is known by its key
t(key, replacements) == <<"t", key, replacements>>

\* a piece of a message that the code writes out
Literal(text) == <<"literal", text, "">>

\* String.prototype.includes on a message: text is one of its pieces (no
\* translation is taken to contain the name of an exception)
Includes(message, text) == \E i \in DOMAIN message : message[i] = Literal(text)

\* new Error(message), and a rejection value that is not an Error: the
\* ProgressEvent that FileReader.onerror hands to reject
Error(message) == [instanceofError |-> TRUE, message |-> message]
ProgressEvent == [instanceofError |-> FALSE, message |-> <<>>]

ThrowValue(v) == [completion |-> "throw", value |-> <<v>>]

\* a Blob or File: its size in bytes, its MIME type, whether FileReader can
\* read it, and the data URL that reading it gives
Blob(size, type, readable, content) ==
    [size |-> size, type |-> type, readable |-> readable, content |-> content]

\* blobToBase64: resolves with reader.result on onload, rejects with the
\* event on onerror
blobToBase64(blob) ==
    IF blob.readable THEN Return(blob.content) ELSE ThrowValue(ProgressEvent)

\* 'image/...'.startsWith('image/')
IsImageType(type) == type \in {"image/png", "image/jpeg"}

CouldNotFetch ==
    <<Literal("Could not fetch or process the image from the URL. It might be due to network issues or CORS policy.")>>

\* a catch block that throws every Error again
urlToBase64CatchRethrows(thrown) ==
    IF thrown.instanceofError THEN ThrowValue(thrown)
    ELSE ThrowValue(Error(CouldNotFetch))

\* the catch block of urlToBase64: FILE_TOO_LARGE is thrown again, anything
\* else becomes one general Error
urlToBase64Catch(thrown) ==
    IF thrown.instanceofError /\ thrown.message = <<Literal("FILE_TOO_LARGE")>>
    THEN ThrowValue(thrown)
    ELSE ThrowValue(Error(CouldNotFetch))

\* urlToBase64 after the await of fetch: the response's status
urlToBase64Response(response) ==
    IF response.fetch = "rejected"
    THEN urlToBase64Catch(Error(<<Literal("Failed to fetch")>>))
    ELSE IF response.fetch = "notOk"
    THEN urlToBase64Catch(Error(<<Literal("Failed to fetch image. Status: 404")>>))
    ELSE Return(response.blob)

\* urlToBase64 without the size check
urlToBase64BlobUnchecked(blob, maxSize) ==
    IF ~IsImageType(blob.type)
    THEN urlToBase64Catch(Error(<<Literal("The fetched file is not an image.")>>))
    ELSE Return(blob)

\* urlToBase64 after the await of response.blob(): the size and type checks
urlToBase64Blob(blob, maxSize) ==
    IF blob.size > maxSize
    THEN urlToBase64Catch(Error(<<Literal("FILE_TOO_LARGE")>>))
    ELSE IF ~IsImageType(blob.type)
    THEN urlToBase64Catch(Error(<<Literal("The fetched file is not an image.")>>))
    ELSE Return(blob)

\* urlToBase64 after the await of response.blob(), which may reject
urlToBase64Body(response, maxSize) ==
    IF response.body = "rejected"
    THEN urlToBase64Catch(Error(<<Literal("Failed to fetch")>>))
    ELSE urlToBase64Blob(response.blob, maxSize)

\* urlToBase64 after the await of blobToBase64
urlToBase64Read(blob) ==
    IF blobToBase64(blob).completion = "return"
    THEN blobToBase64(blob)
    ELSE urlToBase64Catch(blobToBase64(blob).value[1])

\* the key of the message of one issue:
\* `qualityError${issue.charAt(0).toUpperCase() + issue.slice(1).replace('-', '')}`
qualityErrorKey(issue) ==
    CASE issue = "low-resolution" -> "qualityErrorLowresolution"
      [] issue = "too-dark" -> "qualityErrorToodark"
      [] issue = "blurry" -> "qualityErrorBlurry"

\* Array.prototype.join
Join(parts, separator) ==
    [k \in 1..(2 * Len(parts) - 1) |->
        IF k % 2 = 1 THEN parts[(k + 1) \div 2] ELSE separator]

\* an Error that names the first issue only
qualityErrorFirstIssue(qualityResult) ==
    Error(<<t("imageQualityError", ""), Literal(": "),
            t(qualityErrorKey(qualityResult.issues[1]), ""),
            Literal(". "), t("qualityErrorSuggestion", "")>>)

\* the Error thrown for a verdict that is not ok: one message per issue, in
\* the order of the verdict, joined by ', '
qualityError(qualityResult) ==
    LET issues == Join([i \in 1..Len(qualityResult.issues) |->
                           t(qualityErrorKey(qualityResult.issues[i]), "")],
                       Literal(", "))
    IN Error(<<t("imageQualityError", ""), Literal(": ")>> \o issues
              \o <<Literal(". "), t("qualityErrorSuggestion", "")>>)

\* the catch block of handleImageFile
handleImageFileCatch(err) ==
    IF err.instanceofError THEN err.message
    ELSE <<t("imageProcessingError", "")>>

\* the catch block of processProvidedImage
processProvidedImageCatch(err) ==
    LET errorMessage == IF err.instanceofError THEN err.message
                        ELSE <<t("imageProcessingError", "")>>
    IN IF errorMessage = <<Literal("FILE_TOO_LARGE")>>
       THEN <<t("fileTooLargeError", "size: 5")>>
       ELSE errorMessage

\* the catch block of handlePasteFromClipboard
handlePasteFromClipboardCatch(err) ==
    LET message == IF err.instanceofError THEN err.message
                   ELSE <<t("imageUploadFailed", "")>>
    IN IF Includes(message, "NotAllowedError")
       THEN <<t("clipboardPermissionError", "")>>
       ELSE message

\* what the handlers in this part of App never assign
Untouched ==
    <<detectedPeople, selectedPerson, detection, concurrent, uploader, Workflow>>

\* the current values of the dependencies of the effects
Deps ==
    [appState |-> appState, targetImage |-> targetImage,
     sourceImage |-> sourceImage, detectedPeople |-> detectedPeople,
     selectedPerson |-> selectedPerson, sourceGarmentBox |-> sourceGarmentBox,
     history |-> history]

\* one of the dependencies named in names differs from its value at the
\* last run of the effects
Changed(names) == \E name \in names : effectsRan[name] # Deps[name]

\* the effects have run for the state as it is: React runs them after the
\* render that follows a change, before the next event is handled
Flushed ==
    ~Changed({"appState", "targetImage", "sourceImage", "detectedPeople",
              "selectedPerson", "sourceGarmentBox"})

\* a handler, as the record h, comes to its end: the busy flag it had set
\* is cleared
HandlerEnds(h) ==
    /\ isFetchingUrl' = IF h.name = "handleUrlSubmit" THEN FALSE
                        ELSE isFetchingUrl
    /\ isPasting' = IF h.name = "handlePasteFromClipboard" THEN FALSE
                    ELSE isPasting
    /\ handler' = [h EXCEPT !.pc = "done"]

\* the catch and finally blocks of handleImageFile and processProvidedImage
\* for the thrown value err, and the return of the handler that awaited them
Caught(h, err) ==
    /\ error' = Some(IF h.name = "handleImageFile"
                     THEN handleImageFileCatch(err)
                     ELSE processProvidedImageCatch(err))
    /\ appState' = "ERROR"
    /\ loadingMessage' = <<>>
    /\ HandlerEnds(h)
    /\ UNCHANGED <<targetImage, sourceImage>>

\* handleImageFile up to its first await
handleImageFile(file, imageSetter, nextState) ==
    /\ Flushed
    /\ handler.pc = "done"
    /\ loadingMessage = <<>>
    /\ IF file.size > 5 * 1024 * 1024
       THEN /\ error' = Some(<<t("fileTooLargeError", "size: 5")>>)
            /\ appState' = "ERROR"
            /\ handler' = [NoHandler EXCEPT !.name = "handleImageFile",
                              !.input = Some(file), !.blob = Some(file),
                              !.imageSetter = imageSetter,
                              !.nextState = nextState]
            /\ UNCHANGED loadingMessage
       ELSE /\ loadingMessage' = <<t("analyzingImageQuality", "")>>
            /\ appState' = "GENERATING"
            /\ error' = NoValue
            /\ handler' = [NoHandler EXCEPT !.name = "handleImageFile",
                              !.pc = "blobToBase64",
                              !.input = Some(file), !.blob = Some(file),
                              !.imageSetter = imageSetter,
                              !.nextState = nextState]
    /\ UNCHANGED <<targetImage, sourceImage, isFetchingUrl, isPasting>>
    /\ UNCHANGED <<callVars, detectedPeople, selectedPerson, detection,
                   concurrent, Workflow>>

\* handleTargetImageUpload, the onImageUpload of the uploader of step 1
handleTargetImageUpload(file) ==
    /\ appState = "IDLE"
    /\ handleImageFile(file, "setTargetImage", "ANALYZING_TARGET_IMAGE")

\* handleSourceImageUpload, the onImageUpload of the uploader of the source
\* step
handleSourceImageUpload(file) ==
    /\ appState = "SOURCE_TYPE_CHOSEN"
    /\ handleImageFile(file, "setSourceImage", "SOURCE_IMAGE_UPLOADED")

\* the prop onImageUpload of the ImageUploader that is on screen
onImageUpload(file) ==
    \/ handleTargetImageUpload(file)
    \/ handleSourceImageUpload(file)

\* ImageUploader, the change event of the file input: the chosen file is
\* handed over
handleFileChange(file) ==
    /\ uploader' = "change"
    /\ onImageUpload(file)

\* ImageUploader, the drop event: the dropped file is handed over if its
\* type starts with 'image/', and nothing happens otherwise
onDrop(file) ==
    IF IsImageType(file.type)
    THEN /\ uploader' = "drop"
         /\ onImageUpload(file)
    ELSE UNCHANGED vars

\* processProvidedImage up to the call of base64Provider
processProvidedImage ==
    /\ loadingMessage' = <<t("analyzingImageQuality", "")>>
    /\ appState' = "GENERATING"
    /\ error' = NoValue

\* handleUrlSubmit up to the await of fetch in urlToBase64
handleUrlSubmit(response) ==
    /\ Flushed
    /\ appState = "SOURCE_TYPE_CHOSEN"
    /\ loadingMessage = <<>>
    /\ handler.pc = "done"
    /\ ~isFetchingUrl
    /\ isFetchingUrl' = TRUE
    /\ processProvidedImage
    /\ handler' = [NoHandler EXCEPT !.name = "handleUrlSubmit",
                      !.pc = "fetch", !.input = Some(response),
                      !.imageSetter = "setSourceImage",
                      !.nextState = "SOURCE_IMAGE_UPLOADED"]
    /\ UNCHANGED <<targetImage, sourceImage, isPasting>>
    /\ UNCHANGED <<callVars, Untouched>>

\* fetch settles
FetchSettles ==
    /\ Flushed
    /\ handler.pc = "fetch"
    /\ LET r == urlToBase64Response(handler.input[1])
       IN IF r.completion = "return"
          THEN /\ handler' = [handler EXCEPT !.pc = "response.blob"]
               /\ UNCHANGED <<appState, targetImage, sourceImage, error,
                              loadingMessage, isFetchingUrl, isPasting>>
          ELSE Caught(handler, r.value[1])
    /\ UNCHANGED <<callVars, Untouched>>

\* response.blob() settles: the size and type checks of urlToBase64, then
\* the FileReader starts
ResponseBlobSettles ==
    /\ Flushed
    /\ handler.pc = "response.blob"
    /\ LET r == urlToBase64Body(handler.input[1], 5 * 1024 * 1024)
       IN IF r.completion = "return"
          THEN /\ handler' = [handler EXCEPT !.pc = "blobToBase64",
                                             !.blob = Some(r.value[1])]
               /\ UNCHANGED <<appState, targetImage, sourceImage, error,
                              loadingMessage, isFetchingUrl, isPasting>>
          ELSE Caught(IF handler.input[1].body = "rejected" THEN handler
                      ELSE [handler EXCEPT !.blob = Some(handler.input[1].blob)],
                      r.value[1])
    /\ UNCHANGED <<callVars, Untouched>>

\* reader.onload: blobToBase64 resolves, the handler calls checkImageQuality
FileReaderOnload ==
    /\ Flushed
    /\ handler.pc = "blobToBase64"
    /\ handler.blob[1].readable
    /\ LET r == IF handler.name = "handleUrlSubmit"
                THEN urlToBase64Read(handler.blob[1])
                ELSE blobToBase64(handler.blob[1])
       IN Call(r.value[1])
    /\ handler' = [handler EXCEPT !.pc = "checkImageQuality", !.called = TRUE]
    /\ UNCHANGED <<appState, targetImage, sourceImage, error, loadingMessage,
                   isFetchingUrl, isPasting, Untouched>>

\* reader.onerror: blobToBase64 rejects
FileReaderOnerror ==
    /\ Flushed
    /\ handler.pc = "blobToBase64"
    /\ ~handler.blob[1].readable
    /\ LET r == IF handler.name = "handleUrlSubmit"
                THEN urlToBase64Read(handler.blob[1])
                ELSE blobToBase64(handler.blob[1])
       IN Caught(handler, r.value[1])
    /\ UNCHANGED <<callVars, Untouched>>

\* the await of checkImageQuality ends: the verdict is read, the image is
\* stored and the workflow moves on, or the catch block runs
QualitySettled ==
    /\ Flushed
    /\ handler.pc = "checkImageQuality"
    /\ pc = "returned"
    /\ AwaitResult
    /\ IF promise.status # "fulfilled"
       THEN Caught(handler, ProgressEvent)
       ELSE LET qualityResult == promise.value[1]
                h == [handler EXCEPT !.qualityResult = Some(qualityResult)]
            IN IF ~qualityResult.isOk
               THEN Caught(h, qualityError(qualityResult))
               ELSE /\ targetImage' = IF h.imageSetter = "setTargetImage"
                                      THEN base64 ELSE targetImage
                    /\ sourceImage' = IF h.imageSetter = "setSourceImage"
                                      THEN base64 ELSE sourceImage
                    /\ appState' = h.nextState
                    /\ loadingMessage' = <<>>
                    /\ HandlerEnds(h)
                    /\ UNCHANGED error
    /\ UNCHANGED Untouched

\* the catch and finally blocks of handlePasteFromClipboard
PasteCaught(h, err) ==
    /\ error' = Some(handlePasteFromClipboardCatch(err))
    /\ appState' = "ERROR"
    /\ HandlerEnds(h)
    /\ UNCHANGED <<targetImage, sourceImage, loadingMessage>>

\* handlePasteFromClipboard up to the await of navigator.clipboard.read()
handlePasteFromClipboard(clipboard) ==
    /\ Flushed
    /\ appState = "SOURCE_TYPE_CHOSEN"
    /\ loadingMessage = <<>>
    /\ handler.pc = "done"
    /\ ~isPasting
    /\ IF ~clipboard.api
       THEN /\ error' = Some(<<t("clipboardApiNotSupportedError", "")>>)
            /\ appState' = "ERROR"
            /\ handler' = [NoHandler EXCEPT !.name = "handlePasteFromClipboard",
                              !.input = Some(clipboard)]
            /\ UNCHANGED isPasting
       ELSE /\ isPasting' = TRUE
            /\ error' = NoValue
            /\ handler' = [NoHandler EXCEPT !.name = "handlePasteFromClipboard",
                              !.pc = "clipboard.read",
                              !.input = Some(clipboard),
                              !.imageSetter = "setSourceImage",
                              !.nextState = "SOURCE_IMAGE_UPLOADED"]
            /\ UNCHANGED appState
    /\ UNCHANGED <<targetImage, sourceImage, loadingMessage, isFetchingUrl>>
    /\ UNCHANGED <<callVars, Untouched>>

\* navigator.clipboard.read() settles
ClipboardReadSettles ==
    /\ Flushed
    /\ handler.pc = "clipboard.read"
    /\ LET clipboard == handler.input[1]
       IN IF clipboard.read = "rejected"
          THEN PasteCaught(handler, Error(clipboard.reason))
          ELSE IF ~IsImageType(clipboard.blob.type)
          THEN PasteCaught(handler, Error(<<t("clipboardEmptyError", "")>>))
          ELSE /\ handler' = [handler EXCEPT !.pc = "getType"]
               /\ UNCHANGED <<appState, targetImage, sourceImage, error,
                              loadingMessage, isFetchingUrl, isPasting>>
    /\ UNCHANGED <<callVars, Untouched>>

\* imageItem.getType() settles: the size check of the paste handler, then
\* processProvidedImage with the blob
ClipboardItemSettles ==
    /\ Flushed
    /\ handler.pc = "getType"
    /\ LET blob == handler.input[1].blob
           h == [handler EXCEPT !.blob = Some(blob)]
       IN IF blob.size > 5 * 1024 * 1024
          THEN PasteCaught(h, Error(<<t("fileTooLargeError", "size: 5")>>))
          ELSE /\ processProvidedImage
               /\ handler' = [h EXCEPT !.pc = "blobToBase64"]
               /\ UNCHANGED <<targetImage, sourceImage, isFetchingUrl,
                              isPasting>>
    /\ UNCHANGED <<callVars, Untouched>>

\* ------------------------------------------------------- the Gemini service

\* a string of the Gemini client as far as parseGeminiError looks at it: the
\* key it is equal to (or ""), its first character after trim(), what
\* JSON.parse makes of it, and which of the texts searched for it includes
String(key, start, json, fragments) ==
    [key |-> key, start |-> start, json |-> json, fragments |-> fragments]

\* what JSON.parse gives for a text that is no JSON
NotJson == [type |-> "SyntaxError"]

\* a string that is no JSON text
Plain(key, fragments) == String(key, "", NotJson, fragments)

\* JSON values: undefined, a number, an array, and an object by its property
\* error, which is undefined or an object by its properties status and
\* message
undefined == [type |-> "undefined"]
Number == [type |-> "number"]
Array(items) == [type |-> "array", items |-> items]
Object(info) == [type |-> "object", error |-> info]
ErrorInfo(status, message) ==
    [type |-> "info", status |-> status, message |-> message]

\* a property that is a string: its fragments
Text(fragments) == [type |-> "string", fragments |-> fragments]

\* the keys that parseGeminiError hands through
internalKeys == {"errorApiKeyMissing", "errorSafetyBlock", "errorGenerationNoImage"}

\* value is truthy
Truthy(value) == value.type \notin {"undefined"}

\* the try block of parseGeminiError: the key it returns, "" when it falls
\* through, "TypeError" or "SyntaxError" when it throws
parseGeminiErrorTry(message) ==
    IF message.start \in {"[", "{"} /\ message.json.type = "SyntaxError"
    THEN "SyntaxError"
    ELSE LET errorBody ==
                 IF message.start = "["
                 THEN IF message.json.type # "array" THEN undefined
                      ELSE IF message.json.items = <<>> THEN undefined
                      ELSE message.json.items[1]
                 ELSE IF message.start = "{" THEN message.json
                 ELSE undefined
         IN  IF ~Truthy(errorBody) THEN ""
             ELSE IF errorBody.type # "object" THEN ""
             ELSE IF ~Truthy(errorBody.error) THEN ""
             ELSE IF errorBody.error.type # "info" THEN ""
             ELSE LET status == errorBody.error.status
                      apiMessage == errorBody.error.message
                  IN  IF status = "RESOURCE_EXHAUSTED" THEN "errorQuotaExceeded"
                      ELSE IF ~Truthy(apiMessage) THEN ""
                      ELSE IF apiMessage.type # "string" THEN "TypeError"
                      ELSE IF "quota" \in apiMessage.fragments
                      THEN "errorQuotaExceeded"
                      ELSE IF "API key not valid" \in apiMessage.fragments
                      THEN "errorInvalidApiKey"
                      ELSE ""

\* parseGeminiError that hands through every key
parseGeminiErrorAnyKey(e) ==
    IF e.instanceofError /\ e.message.key # "" THEN e.message.key
    ELSE "errorGenericApi"

\* parseGeminiError: the key of the text for what was caught
parseGeminiError(e) ==
    IF ~e.instanceofError THEN "errorGenericApi"
    ELSE IF e.message.key \in internalKeys THEN e.message.key
    ELSE IF parseGeminiErrorTry(e.message) \in {"errorQuotaExceeded", "errorInvalidApiKey"}
    THEN parseGeminiErrorTry(e.message)
    ELSE IF "API key not valid" \in e.message.fragments
    THEN "errorInvalidApiKey"
    ELSE "errorGenericApi"

\* the TypeError and the SyntaxError of the runtime
TypeError == Error(Plain("", {}))
SyntaxError == Error(Plain("", {}))

\* detectPeopleInImage: apiKeyAvailable is isApiKeyAvailable(), reply is
\* what ai.models.generateContent settles with
detectPeopleInImage(apiKeyAvailable, reply) ==
    IF ~apiKeyAvailable THEN ThrowValue(Error("errorApiKeyMissing"))
    ELSE IF reply.settled = "rejected"
    THEN ThrowValue(Error(parseGeminiError(reply.reason)))
    ELSE IF reply.text = "undefined"
    THEN ThrowValue(Error(parseGeminiError(TypeError)))
    ELSE IF reply.text = "notJson"
    THEN ThrowValue(Error(parseGeminiError(SyntaxError)))
    ELSE IF reply.text = "null"
    THEN ThrowValue(Error(parseGeminiError(TypeError)))
    ELSE IF reply.text = "people" THEN Return(<<"person">>)
    ELSE Return(<<>>)

\* generateVirtualTryOnImage: reply is what ai.models.generateContent
\* settles with, its first candidate by whether it has an image part and by
\* its finishReason
generateVirtualTryOnImage(apiKeyAvailable, reply) ==
    IF ~apiKeyAvailable THEN ThrowValue(Error("errorApiKeyMissing"))
    ELSE IF reply.settled = "rejected"
    THEN ThrowValue(Error(parseGeminiError(reply.reason)))
    ELSE IF reply.candidate = "noParts"
    THEN ThrowValue(Error(parseGeminiError(TypeError)))
    ELSE IF reply.candidate = "image" THEN Return("resultImage")
    ELSE IF reply.finishReason = "SAFETY"
    THEN ThrowValue(Error(parseGeminiError(Error(Plain("errorSafetyBlock", {})))))
    ELSE ThrowValue(Error(parseGeminiError(Error(Plain("errorGenerationNoImage", {})))))

\* what the Gemini client throws: a value that is no Error, a network
\* failure, the three keys as messages, a key of another module, a plain
\* text about the API key, and JSON texts of every shape
GeminiFailures ==
    {[instanceofError |-> FALSE, message |-> Plain("", {})],
     [instanceofError |-> FALSE, message |-> Plain("errorSafetyBlock", {})],
     Error(Plain("", {})),
     Error(Plain("errorApiKeyMissing", {})),
     Error(Plain("errorSafetyBlock", {})),
     Error(Plain("errorGenerationNoImage", {})),
     Error(Plain("imageTooLargeError", {})),
     Error(Plain("", {"API key not valid"})),
     Error(Plain("", {"quota"})),
     Error(String("", "{", NotJson, {})),
     Error(String("", "[", NotJson, {"API key not valid"})),
     Error(String("", "[", Array(<<>>), {})),
     Error(String("", "[", Array(<<Number>>), {})),
     Error(String("", "{", Object(undefined), {})),
     Error(String("", "{", Object(Number), {})),
     Error(String("", "{", Object(ErrorInfo("RESOURCE_EXHAUSTED", undefined)), {})),
     Error(String("", "{", Object(ErrorInfo("UNAVAILABLE", undefined)), {})),
     Error(String("", "{", Object(ErrorInfo("UNAVAILABLE", Number)), {})),
     Error(String("", "{", Object(ErrorInfo("UNAVAILABLE", Text({}))), {})),
     Error(String("", "{", Object(ErrorInfo("UNAVAILABLE", Text({"quota"}))),
                  {"quota"})),
     Error(String("", "[", Array(<<Object(ErrorInfo("INVALID_ARGUMENT",
                                   Text({"API key not valid"})))>>),
                  {"API key not valid"})),
     Error(String("", "{", Object(ErrorInfo("INVALID_ARGUMENT",
                                   Text({"quota", "API key not valid"}))),
                  {"quota", "API key not valid"}))}

\* what generateContent settles with for a detection
DetectionReplies ==
    {[settled |-> "rejected", reason |-> e, text |-> "undefined"] :
        e \in GeminiFailures}
    \cup {[settled |-> "resolved", reason |-> TypeError, text |-> x] :
             x \in {"undefined", "notJson", "null", "people", "noPeople"}}

\* what generateContent settles with for a generation
GenerationReplies ==
    {[settled |-> "rejected", reason |-> e, candidate |-> "none",
      finishReason |-> "STOP"] : e \in GeminiFailures}
    \cup {[settled |-> "resolved", reason |-> TypeError, candidate |-> c,
           finishReason |-> f] :
             c \in {"none", "noParts", "noImage", "image"},
             f \in {"STOP", "SAFETY"}}

\* ------------------------------------------------------------ the workflow

\* the states in which the session is saved, GENERATING among them
savableStatesGenerating ==
    {"TARGET_PERSON_CHOOSING", "TARGET_PERSON_SELECTED", "SOURCE_TYPE_CHOSEN",
     "SOURCE_IMAGE_UPLOADED", "GARMENT_SELECTED", "GENERATING"}

\* the states in which the session is saved
savableStates ==
    {"TARGET_PERSON_CHOOSING", "TARGET_PERSON_SELECTED", "SOURCE_TYPE_CHOSEN",
     "SOURCE_IMAGE_UPLOADED", "GARMENT_SELECTED"}

\* the object that the session effect saves
stateToSave ==
    [appState |-> appState, targetImage |-> targetImage,
     sourceImage |-> sourceImage, detectedPeople |-> detectedPeople,
     selectedPerson |-> selectedPerson, sourceGarmentBox |-> sourceGarmentBox]

\* the functions of the database module, taken to keep one session and a
\* list of history items, newest first
saveSession(state) == [db EXCEPT !.session = Some(state)]
loadSession == db.session
saveHistoryItem(item) == [db EXCEPT !.history = <<item>> \o @]
loadAllHistoryItems == db.history

\* the session effect: the database after it
saveSessionEffect ==
    IF appState \in savableStates THEN saveSession(stateToSave) ELSE db

\* the effect analyzeTargetImage runs and passes its test
analyzeTargetImage ==
    /\ Changed({"appState", "targetImage"})
    /\ appState = "ANALYZING_TARGET_IMAGE"
    /\ targetImage # NoValue

\* the four inputs of a generation are there
AllInputs ==
    /\ targetImage # NoValue
    /\ selectedPerson # NoValue
    /\ sourceImage # NoValue
    /\ sourceGarmentBox # NoValue

\* the effect performVirtualTryOn runs and passes its test
performVirtualTryOn ==
    /\ Changed({"appState", "targetImage", "selectedPerson", "sourceImage",
                "sourceGarmentBox"})
    /\ appState = "GENERATING"
    /\ AllInputs

\* a run of performVirtualTryOn at the await of generateVirtualTryOnImage
NewRun == [pc |-> "generateVirtualTryOnImage", history |-> <<>>]

\* the effects of App after a render in which a dependency has changed: the
\* session is saved, analyzeTargetImage calls detectPeopleInImage,
\* performVirtualTryOn calls generateVirtualTryOnImage
useEffect ==
    /\ ~Flushed
    /\ analyzeTargetImage => detection < MaxPending
    /\ performVirtualTryOn => Len(runs) < MaxRuns
    /\ effectsRan' = Deps
    /\ db' = saveSessionEffect
    /\ detection' = IF analyzeTargetImage THEN detection + 1 ELSE detection
    /\ runs' = IF performVirtualTryOn THEN Append(runs, NewRun) ELSE runs
    /\ loadingMessage' = IF performVirtualTryOn
                         THEN <<t("generatingImage", "")>>
                         ELSE IF analyzeTargetImage
                         THEN <<t("detectingPeople", "")>>
                         ELSE loadingMessage
    /\ generatedImage' = IF performVirtualTryOn THEN NoValue ELSE generatedImage
    /\ error' = IF performVirtualTryOn THEN NoValue ELSE error
    /\ UNCHANGED <<appState, targetImage, sourceImage, detectedPeople,
                   selectedPerson, sourceGarmentBox, history, isFetchingUrl,
                   isPasting, handler, mounted>>
    /\ UNCHANGED <<callVars, concurrent, uploader>>

\* the key of the text for what an effect has caught
errorMessageKey(err, fallback) ==
    IF err.instanceofError THEN err.message ELSE fallback

\* detectPeopleInImage settles and analyzeTargetImage goes on: with people,
\* with none, or in its catch block
DetectionSettles(outcome) ==
    /\ Flushed
    /\ detection > 0
    /\ detection' = detection - 1
    /\ loadingMessage' = <<>>
    /\ IF outcome.completion = "return" /\ Len(outcome.value[1]) > 0
       THEN /\ detectedPeople' = outcome.value[1]
            /\ appState' = "TARGET_PERSON_CHOOSING"
            /\ UNCHANGED error
       ELSE /\ error' = Some(<<t(IF outcome.completion = "return"
                                  THEN "noPeopleDetectedError"
                                  ELSE errorMessageKey(outcome.value[1],
                                                       "detectionFailedError"),
                                  "")>>)
            /\ appState' = "ERROR"
            /\ UNCHANGED detectedPeople
    /\ UNCHANGED <<targetImage, sourceImage, selectedPerson, isFetchingUrl,
                   isPasting, handler>>
    /\ UNCHANGED <<callVars, concurrent, uploader, Workflow>>

\* the PersonSelector hands over the chosen person
handlePersonSelected(person) ==
    /\ Flushed
    /\ appState = "TARGET_PERSON_CHOOSING"
    /\ loadingMessage = <<>>
    /\ targetImage # NoValue
    /\ selectedPerson' = Some(person)
    /\ appState' = "TARGET_PERSON_SELECTED"
    /\ UNCHANGED <<targetImage, sourceImage, detectedPeople, error,
                   loadingMessage, isFetchingUrl, isPasting, handler,
                   detection>>
    /\ UNCHANGED <<callVars, concurrent, uploader, Workflow>>

\* one of the two buttons of step 3
handleSourceTypeSelection(useSameImage) ==
    /\ Flushed
    /\ appState = "TARGET_PERSON_SELECTED"
    /\ loadingMessage = <<>>
    /\ IF useSameImage
       THEN /\ sourceImage' = targetImage
            /\ appState' = "SOURCE_IMAGE_UPLOADED"
       ELSE /\ appState' = "SOURCE_TYPE_CHOSEN"
            /\ UNCHANGED sourceImage
    /\ UNCHANGED <<targetImage, detectedPeople, selectedPerson, error,
                   loadingMessage, isFetchingUrl, isPasting, handler,
                   detection>>
    /\ UNCHANGED <<callVars, concurrent, uploader, Workflow>>

\* the ImageEditor hands over the box drawn around the garment
handleGarmentBoxDrawn(box) ==
    /\ Flushed
    /\ appState \in {"SOURCE_IMAGE_UPLOADED", "GARMENT_SELECTED"}
    /\ loadingMessage = <<>>
    /\ sourceImage # NoValue
    /\ sourceGarmentBox' = Some(box)
    /\ appState' = "GARMENT_SELECTED"
    /\ UNCHANGED <<targetImage, sourceImage, detectedPeople, selectedPerson,
                   error, loadingMessage, isFetchingUrl, isPasting, handler,
                   detection>>
    /\ UNCHANGED <<generatedImage, history, runs, db, effectsRan, mounted>>
    /\ UNCHANGED <<callVars, concurrent, uploader>>

\* the Generate button
handleGenerateClick ==
    /\ Flushed
    /\ appState = "GARMENT_SELECTED"
    /\ loadingMessage = <<>>
    /\ sourceImage # NoValue
    /\ appState' = IF AllInputs THEN "GENERATING" ELSE appState
    /\ UNCHANGED <<targetImage, sourceImage, detectedPeople, selectedPerson,
                   error, loadingMessage, isFetchingUrl, isPasting, handler,
                   detection>>
    /\ UNCHANGED <<callVars, concurrent, uploader, Workflow>>

\* a sequence without its element i
Remove(seq, i) == SubSeq(seq, 1, i - 1) \o SubSeq(seq, i + 1, Len(seq))

\* generateVirtualTryOnImage settles for run i of performVirtualTryOn: with
\* an image, which is shown and handed to saveHistoryItem, or in the catch
\* block
GenerationSettles(i, outcome) ==
    /\ Flushed
    /\ i \in DOMAIN runs
    /\ runs[i].pc = "generateVirtualTryOnImage"
    /\ IF outcome.completion = "return"
       THEN /\ generatedImage' = outcome.value
            /\ runs' = [runs EXCEPT ![i].pc = "saveHistoryItem"]
            /\ UNCHANGED <<appState, error, loadingMessage>>
       ELSE /\ error' = Some(<<t(errorMessageKey(outcome.value[1],
                                                 "generationFailedError"),
                                 "")>>)
            /\ appState' = "ERROR"
            /\ loadingMessage' = <<>>
            /\ runs' = Remove(runs, i)
            /\ UNCHANGED generatedImage
    /\ UNCHANGED <<targetImage, sourceImage, detectedPeople, selectedPerson,
                   isFetchingUrl, isPasting, handler, detection>>
    /\ UNCHANGED <<sourceGarmentBox, history, db, effectsRan, mounted>>
    /\ UNCHANGED <<callVars, concurrent, uploader>>

\* what a write to the database settles with: it is done, or it is rejected
\* with the text of getDb or with the DOMException of the request
StorageOutcomes ==
    {Return("saved"),
     ThrowValue([instanceofError |-> FALSE, message |-> "IndexedDB error"]),
     ThrowValue(Error("QuotaExceededError"))}

\* saveHistoryItem settles for run i: the item is put in front of the
\* history and the result is shown, or the catch block runs
SaveHistoryItemSettles(i, outcome) ==
    /\ Flushed
    /\ i \in DOMAIN runs
    /\ runs[i].pc = "saveHistoryItem"
    /\ outcome.completion = "return" => Len(db.history) < MaxHistory
    /\ runs' = Remove(runs, i)
    /\ loadingMessage' = <<>>
    /\ IF outcome.completion = "return"
       THEN /\ db' = saveHistoryItem("newHistoryItem")
            /\ history' = <<"newHistoryItem">> \o history
            /\ appState' = "RESULT_READY"
            /\ UNCHANGED error
       ELSE /\ error' = Some(<<t(errorMessageKey(outcome.value[1],
                                                 "generationFailedError"),
                                 "")>>)
            /\ appState' = "ERROR"
            /\ UNCHANGED <<db, history>>
    /\ UNCHANGED <<targetImage, sourceImage, detectedPeople, selectedPerson,
                   isFetchingUrl, isPasting, handler, detection>>
    /\ UNCHANGED <<sourceGarmentBox, generatedImage, effectsRan, mounted>>
    /\ UNCHANGED <<callVars, concurrent, uploader>>

\* the Start Over button, shown whenever the workflow is not at its start
handleReset ==
    /\ Flushed
    /\ appState # "IDLE"
    /\ appState' = "IDLE"
    /\ targetImage' = NoValue
    /\ sourceImage' = NoValue
    /\ detectedPeople' = <<>>
    /\ selectedPerson' = NoValue
    /\ sourceGarmentBox' = NoValue
    /\ generatedImage' = NoValue
    /\ error' = NoValue
    /\ loadingMessage' = <<>>
    /\ history' = <<>>
    /\ db' = EmptyDb
    /\ UNCHANGED <<isFetchingUrl, isPasting, handler, detection, runs,
                   effectsRan, mounted>>
    /\ UNCHANGED <<callVars, concurrent, uploader>>

\* the states in which the Back button is shown
statesWithBackButton ==
    {"TARGET_PERSON_CHOOSING", "TARGET_PERSON_SELECTED", "SOURCE_TYPE_CHOSEN",
     "SOURCE_IMAGE_UPLOADED", "GARMENT_SELECTED", "RESULT_READY", "ERROR"}

\* the switch of handleBack that skips the step of the source type
handleBackSwitchSkipping(state) ==
    CASE state = "RESULT_READY" -> "GARMENT_SELECTED"
      [] state = "GARMENT_SELECTED" -> "SOURCE_IMAGE_UPLOADED"
      [] state = "SOURCE_IMAGE_UPLOADED" -> "SOURCE_TYPE_CHOSEN"
      [] state = "SOURCE_TYPE_CHOSEN" -> "TARGET_PERSON_SELECTED"
      [] state = "TARGET_PERSON_SELECTED" -> "TARGET_PERSON_CHOOSING"
      [] state = "TARGET_PERSON_CHOOSING" -> "IDLE"
      [] state = "ERROR" -> "IDLE"

\* the switch of handleBack: the state that setAppState is called with, for
\* ERROR the one that handleReset sets
handleBackSwitch(state) ==
    CASE state = "RESULT_READY" -> "GARMENT_SELECTED"
      [] state = "GARMENT_SELECTED" -> "SOURCE_IMAGE_UPLOADED"
      [] state = "SOURCE_IMAGE_UPLOADED" -> "TARGET_PERSON_SELECTED"
      [] state = "SOURCE_TYPE_CHOSEN" -> "TARGET_PERSON_SELECTED"
      [] state = "TARGET_PERSON_SELECTED" -> "TARGET_PERSON_CHOOSING"
      [] state = "TARGET_PERSON_CHOOSING" -> "IDLE"
      [] state = "ERROR" -> "IDLE"

\* the Back button
handleBack ==
    /\ appState \in statesWithBackButton
    /\ IF appState = "ERROR"
       THEN handleReset /\ appState' = handleBackSwitch(appState)
       ELSE /\ Flushed
            /\ error' = NoValue
            /\ generatedImage' = IF appState = "RESULT_READY" THEN NoValue
                                 ELSE generatedImage
            /\ sourceGarmentBox' =
                  IF appState \in {"GARMENT_SELECTED", "SOURCE_IMAGE_UPLOADED"}
                  THEN NoValue ELSE sourceGarmentBox
            /\ sourceImage' = IF appState = "SOURCE_IMAGE_UPLOADED"
                              THEN NoValue ELSE sourceImage
            /\ selectedPerson' = IF appState = "TARGET_PERSON_SELECTED"
                                 THEN NoValue ELSE selectedPerson
            /\ targetImage' = IF appState = "TARGET_PERSON_CHOOSING"
                              THEN NoValue ELSE targetImage
            /\ detectedPeople' = IF appState = "TARGET_PERSON_CHOOSING"
                                 THEN <<>> ELSE detectedPeople
            /\ appState' = handleBackSwitch(appState)
            /\ UNCHANGED <<loadingMessage, isFetchingUrl, isPasting, handler,
                           detection, history, runs, db, effectsRan, mounted>>
            /\ UNCHANGED <<callVars, concurrent, uploader>>

\* the page is loaded again: the component starts from its initial state,
\* what was in flight is gone, and the database is what it was
Reload ==
    /\ mounted = "loaded"
    /\ appState' = "IDLE"
    /\ targetImage' = NoValue
    /\ sourceImage' = NoValue
    /\ detectedPeople' = <<>>
    /\ selectedPerson' = NoValue
    /\ error' = NoValue
    /\ loadingMessage' = <<>>
    /\ isFetchingUrl' = FALSE
    /\ isPasting' = FALSE
    /\ handler' = NoHandler
    /\ detection' = 0
    /\ uploader' = "none"
    /\ sourceGarmentBox' = NoValue
    /\ generatedImage' = NoValue
    /\ history' = <<>>
    /\ runs' = <<>>
    /\ effectsRan' = InitialDeps
    /\ mounted' = "loading"
    /\ pc' = "idle"
    /\ base64' = NoValue
    /\ img' = NoValue
    /\ canvas' = NoValue
    /\ ctx' = "unset"
    /\ brightness' = NoValue
    /\ blurVariance' = NoValue
    /\ promise' = Pending
    /\ UNCHANGED <<db, concurrent>>

\* loadInitialData after its await: the saved history and the saved session
\* are put back
SessionLoaded ==
    /\ Flushed
    /\ mounted = "loading"
    /\ mounted' = "loaded"
    /\ history' = loadAllHistoryItems
    /\ IF loadSession # NoValue /\ loadSession[1].appState # "IDLE"
       THEN /\ appState' = loadSession[1].appState
            /\ targetImage' = loadSession[1].targetImage
            /\ sourceImage' = loadSession[1].sourceImage
            /\ detectedPeople' = loadSession[1].detectedPeople
            /\ selectedPerson' = loadSession[1].selectedPerson
            /\ sourceGarmentBox' = loadSession[1].sourceGarmentBox
       ELSE UNCHANGED <<appState, targetImage, sourceImage, detectedPeople,
                        selectedPerson, sourceGarmentBox>>
    /\ UNCHANGED <<error, loadingMessage, isFetchingUrl, isPasting, handler,
                   detection, generatedImage, runs, db, effectsRan>>
    /\ UNCHANGED <<callVars, concurrent, uploader>>

\* the data URLs that reach the App: one that does not decode, a dark pixel,
\* a gray strip one column short of the minimum width, a dark strip of
\* sufficient size, and a sharp bright strip
AppImages ==
    {Undecodable("garbage"),
     Bitmap(1, 1, <<Black>>),
     Solid(299, 32000, Gray(128)),
     Solid(300, 32000, Black),
     Checker(300, 32000, Black, White)}

\* files and blobs: small ones of every content, one of exactly 5 MiB, one a
\* byte larger, one that cannot be read, and one that is not an image
Blobs ==
    {Blob(1024, "image/png", TRUE, c) : c \in AppImages}
    \cup {Blob(5 * 1024 * 1024, "image/jpeg", TRUE, Bitmap(1, 1, <<Black>>)),
          Blob(5 * 1024 * 1024 + 1, "image/png", TRUE,
               Checker(300, 32000, Black, White)),
          Blob(1024, "image/png", FALSE, Undecodable("garbage")),
          Blob(1024, "text/html", TRUE, Undecodable("garbage"))}

\* what fetch(url) and response.blob() give: a network failure, a status
\* that is not ok, a body that breaks off, or a body
Responses ==
    {[fetch |-> f, body |-> b,
      blob |-> Blob(1024, "text/html", TRUE, Undecodable("garbage"))] :
        f \in {"rejected", "notOk"}, b \in {"resolved", "rejected"}}
    \cup {[fetch |-> "ok", body |-> "rejected",
           blob |-> Blob(5 * 1024 * 1024 + 1, "image/png", TRUE,
                         Undecodable("garbage"))]}
    \cup {[fetch |-> "ok", body |-> "resolved", blob |-> b] :
             b \in Blobs \cup {Blob(5 * 1024 * 1024 + 1, "text/html", TRUE,
                                    Undecodable("garbage"))}}

\* what the clipboard gives: no API, a refused read whose message does or
\* does not hold the name of the exception, or an item of some type
Clipboards ==
    {[api |-> FALSE, read |-> "rejected", reason |-> <<>>,
      blob |-> Blob(1024, "text/html", TRUE, Undecodable("garbage"))]}
    \cup {[api |-> TRUE, read |-> "rejected", reason |-> m,
           blob |-> Blob(1024, "text/html", TRUE, Undecodable("garbage"))] :
             m \in {<<Literal("NotAllowedError"), Literal(": Read permission denied.")>>,
                    <<Literal("Read permission denied.")>>}}
    \cup {[api |-> TRUE, read |-> "items", reason |-> <<>>, blob |-> b] :
             b \in Blobs}

\* the detections that follow an upload: people are found, or the request
\* fails
UploadReplies ==
    {reply \in DetectionReplies :
        \/ reply.settled = "resolved" /\ reply.text = "people"
        \/ reply.settled = "rejected" /\ reply.reason = Error(Plain("", {}))}

\* the App: uploads by file, URL and clipboard, each with its quality check,
\* one handler in flight at a time
NextApp ==
    \/ \E file \in Blobs : handleFileChange(file)
    \/ \E file \in Blobs : onDrop(file)
    \/ \E response \in Responses : handleUrlSubmit(response)
    \/ FetchSettles
    \/ ResponseBlobSettles
    \/ \E clipboard \in Clipboards : handlePasteFromClipboard(clipboard)
    \/ ClipboardReadSettles
    \/ ClipboardItemSettles
    \/ FileReaderOnload
    \/ FileReaderOnerror
    \/ Flushed /\ ImageOnload /\ UNCHANGED <<concurrent, appVars>>
    \/ Flushed /\ ImageOnerror /\ UNCHANGED <<concurrent, appVars>>
    \/ QualitySettled
    \/ useEffect
    \/ \E reply \in UploadReplies :
          DetectionSettles(detectPeopleInImage(TRUE, reply))
    \/ \E person \in {"person"} : handlePersonSelected(person)
    \/ \E useSameImage \in BOOLEAN : handleSourceTypeSelection(useSameImage)
    \/ handleReset

SpecApp == Init /\ [][NextApp]_vars

\* the file of the workflow: a picture that the analysis cannot decode and
\* therefore accepts
FlowBlobs == {Blob(1024, "image/png", TRUE, Undecodable("garbage"))}

\* the App from the upload of the target image to the result: uploads from
\* the file picker with their quality check, the effects, the requests in
\* flight, the buttons of the workflow, and the page loaded again
NextFlow ==
    \/ \E file \in FlowBlobs : handleFileChange(file)
    \/ FileReaderOnload
    \/ Flushed /\ ImageOnerror /\ UNCHANGED <<concurrent, appVars>>
    \/ QualitySettled
    \/ useEffect
    \/ \E apiKeyAvailable \in BOOLEAN, reply \in DetectionReplies :
          DetectionSettles(detectPeopleInImage(apiKeyAvailable, reply))
    \/ \E person \in {"person"} : handlePersonSelected(person)
    \/ \E useSameImage \in BOOLEAN : handleSourceTypeSelection(useSameImage)
    \/ \E box \in {"box"} : handleGarmentBoxDrawn(box)
    \/ handleGenerateClick
    \/ \E i \in 1..MaxRuns, apiKeyAvailable \in BOOLEAN,
          reply \in GenerationReplies :
          GenerationSettles(i, generateVirtualTryOnImage(apiKeyAvailable, reply))
    \/ \E i \in 1..MaxRuns, outcome \in StorageOutcomes :
          SaveHistoryItemSettles(i, outcome)
    \/ handleBack
    \/ handleReset
    \/ Reload
    \/ SessionLoaded

SpecFlow == Init /\ [][NextFlow]_vars

\* ------------------------------------------------------------- the verdict
Returned == pc = "returned"
Input == base64[1]
Verdict == promise.value[1]
Issues == Verdict.issues
Reported(issue) == \E k \in 1..Len(Issues) : Issues[k] = issue
Accepting == [isOk |-> TRUE, issues |-> <<>>]

Decoded == img # NoValue
BelowMinimum ==
    \/ img[1].naturalWidth < MIN_RESOLUTION_WIDTH
    \/ img[1].naturalHeight < MIN_RESOLUTION_HEIGHT
RasterHasPixels ==
    canvas # NoValue /\ canvas[1].width >= 1 /\ canvas[1].height >= 1

\* C1: every verdict that checkImageQuality returns, on whichever path, has
\* isOk true exactly when its list of issues is empty
C1_IsOkIffNoIssues ==
    Returned /\ promise.status = "fulfilled" =>
        (Verdict.isOk <=> Len(Verdict.issues) = 0)

\* a verdict of the no-context path that carries an issue and is not ok
C1_Witness ==
    /\ Returned
    /\ promise.status = "fulfilled"
    /\ ctx = "null"
    /\ Issues = <<"low-resolution">>
    /\ ~Verdict.isOk

\* C2: the promise of checkImageQuality is never rejected, and for a string
\* that does not decode it is fulfilled with exactly {isOk: true, issues: []}
C2_NeverRejects ==
    Returned =>
        /\ promise.status = "fulfilled"
        /\ ~Input.valid => Verdict = Accepting

\* an undecodable string was given and the call has returned
C2_Witness ==
    Returned /\ ~Input.valid /\ img = NoValue /\ promise.status = "fulfilled"

\* C3: a decoded image with a natural side below 300 always has
\* 'low-resolution' among its issues, whatever the later steps do
C3_LowResolutionAlwaysReported ==
    Returned /\ Decoded /\ BelowMinimum => Reported("low-resolution")

\* C4: the issues of every verdict are a duplicate-free subsequence of
\* low-resolution, too-dark, blurry, in that order
Rank(issue) ==
    CASE issue = "low-resolution" -> 1
      [] issue = "too-dark" -> 2
      [] issue = "blurry" -> 3
      [] OTHER -> 0

C4_IssuesInOrder ==
    Returned /\ promise.status = "fulfilled" =>
        /\ \A k \in 1..Len(Issues) : Rank(Issues[k]) > 0
        /\ \A j, k \in 1..Len(Issues) : j < k => Rank(Issues[j]) < Rank(Issues[k])

\* a verdict with all three issues
C4_Witness ==
    Returned /\ promise.status = "fulfilled"
    /\ Issues = <<"low-resolution", "too-dark", "blurry">>

\* C5: 'low-resolution' depends on the natural size only: an image of at
\* least 300 x 300 never gets it, however small its analysis canvas, and
\* two images that paint the same analysis raster from different natural
\* sizes get verdicts that differ in 'low-resolution' at most
WithoutLowResolution(issues) ==
    SelectSeq(issues, LAMBDA i : i # "low-resolution")

SameRaster(a, b) ==
    /\ a.valid /\ b.valid
    /\ a.kind = b.kind /\ a.c1 = b.c1 /\ a.c2 = b.c2 /\ a.px = b.px
    /\ CreateCanvas(a) = CreateCanvas(b)
    /\ <<a.naturalWidth, a.naturalHeight>> # <<b.naturalWidth, b.naturalHeight>>

C5_NativeSizeDecides ==
    Returned /\ Decoded =>
        /\ ~BelowMinimum => ~Reported("low-resolution")
        /\ ctx = "2d" /\ Input.kind # "bitmap" =>
              \A other \in Solids \cup Checkers :
                  SameRaster(other, Input) =>
                      WithoutLowResolution(
                          checkImageQuality(loadImage(other), TRUE)
                              .promise.value[1].issues)
                      = WithoutLowResolution(Issues)

\* a 2000 x 400 image analysed at 500 x 100 without 'low-resolution', while
\* a 500 x 100 image paints the same raster
C5_Witness ==
    /\ Returned /\ ctx = "2d"
    /\ Input = Solid(2000, 400, Gray(128))
    /\ canvas = Some([width |-> 500, height |-> 100])
    /\ SameRaster(Solid(500, 100, Gray(128)), Input)
    /\ Issues = <<"blurry">>

\* C6: with a drawing context, 'too-dark' is reported exactly when the mean
\* over the pixels of the analysis raster of (R + G + B) / 3 is below 70;
\* a mean of exactly 70 is not too dark; alpha plays no part
ChannelTotal ==
    LET width == canvas[1].width
        n == width * canvas[1].height
        rgb == TypedArray([k \in 1..n |->
                 LET i == k - 1 IN
                   LET p == drawImage(Input, width, i % width, i \div width)
                   IN  p[1] + p[2] + p[3]])
    IN  SumOver(rgb, 1, n)

C6_TooDarkIffMeanBelow70 ==
    Returned /\ ctx = "2d" =>
        IF RasterHasPixels
        THEN /\ brightness =
                   Some(Rat(ChannelTotal, 3 * canvas[1].width * canvas[1].height))
             /\ Reported("too-dark") <=>
                   ChannelTotal < 3 * DARKNESS_THRESHOLD
                                    * canvas[1].width * canvas[1].height
        ELSE ~Reported("too-dark")

\* a raster whose mean is exactly 70 and that is not reported too dark
C6_Witness ==
    /\ Returned /\ ctx = "2d" /\ brightness # NoValue
    /\ brightness[1].num = DARKNESS_THRESHOLD * brightness[1].den
    /\ ~Reported("too-dark")

\* C7: with a drawing context, 'blurry' is reported exactly when the
\* Laplacian variance of the analysis raster is below 100; a variance of
\* exactly 100 is not blurry
C7_BlurryIffVarianceBelow100 ==
    Returned /\ ctx = "2d" =>
        IF RasterHasPixels
        THEN /\ blurVariance # NoValue
             /\ Reported("blurry") <=>
                   BigLess(blurVariance[1].num,
                           BigTimesLimb(blurVariance[1].den, BLUR_THRESHOLD))
        ELSE ~Reported("blurry")

\* a raster whose Laplacian variance is exactly 100 and that is not blurry
C7_Witness ==
    /\ Returned /\ ctx = "2d" /\ blurVariance # NoValue
    /\ blurVariance[1].num = BigTimesLimb(blurVariance[1].den, BLUR_THRESHOLD)
    /\ ~Reported("blurry")

\* an input all of whose pixels have one colour, and that colour
Uniform(b) ==
    /\ b.valid
    /\ \/ b.kind = "solid"
       \/ b.kind = "checker" /\ b.c1 = b.c2
       \/ b.kind = "bitmap" /\ \A k \in 1..Len(b.px) : b.px[k] = b.px[1]
Colour(b) == IF b.kind = "bitmap" THEN b.px[1] ELSE b.c1
Dark(c) == c[1] + c[2] + c[3] < 3 * DARKNESS_THRESHOLD

\* C8 as stated: every uniform image has Laplacian variance 0 and is
\* reported blurry, and a uniform image of at least 300 x 300 whose channel
\* average is below 70 returns exactly ['too-dark', 'blurry']
C8_UniformAlwaysBlurry ==
    Returned /\ Uniform(Input) =>
        /\ blurVariance # NoValue
        /\ blurVariance[1].num = BigZero
        /\ Reported("blurry")
        /\ ~BelowMinimum /\ Dark(Colour(Input)) => Issues = <<"too-dark", "blurry">>

\* C8 amended: when a drawing context is obtained and the analysis raster
\* has at least one pixel, a uniform image has Laplacian variance 0 and is
\* reported blurry, and if it is at least 300 x 300 with a channel average
\* below 70 its issues are exactly ['too-dark', 'blurry']
C8_UniformBlurryWhenAnalysed ==
    Returned /\ Uniform(Input) /\ ctx = "2d" /\ RasterHasPixels =>
        /\ blurVariance # NoValue
        /\ blurVariance[1].num = BigZero
        /\ Reported("blurry")
        /\ ~BelowMinimum /\ Dark(Colour(Input)) => Issues = <<"too-dark", "blurry">>

\* a solid black 300 x 300 image analysed with a context
C8_Witness ==
    /\ Returned /\ ctx = "2d" /\ RasterHasPixels
    /\ Input = Solid(300, 300, Black)
    /\ blurVariance # NoValue /\ blurVariance[1].num = BigZero
    /\ Issues = <<"too-dark", "blurry">>

\* C9 as stated: an image that fails the resolution check is still checked
\* for brightness and sharpness, and a 100 x 100 solid rgb(128,128,128)
\* image returns exactly ['low-resolution', 'blurry'] with isOk false
C9_NeverShortCircuited ==
    Returned /\ Decoded =>
        /\ BelowMinimum => brightness # NoValue /\ blurVariance # NoValue
        /\ brightness # NoValue => blurVariance # NoValue
        /\ Input = Solid(100, 100, Gray(128)) =>
              Verdict = [isOk |-> FALSE, issues |-> <<"low-resolution", "blurry">>]

\* C9 amended: when a drawing context is obtained, no check is skipped
\* because of an issue found before it: brightness and sharpness are both
\* evaluated whenever the analysis raster has a pixel, whatever the
\* resolution check and the brightness check found, and a 100 x 100 solid
\* rgb(128,128,128) image returns exactly ['low-resolution', 'blurry'] with
\* isOk false
C9_NoShortCircuitWithContext ==
    Returned /\ ctx = "2d" =>
        /\ brightness # NoValue <=> RasterHasPixels
        /\ blurVariance # NoValue <=> RasterHasPixels
        /\ RasterHasPixels =>
              /\ BelowMinimum <=> Reported("low-resolution")
              /\ RatLess(brightness[1], DARKNESS_THRESHOLD) <=> Reported("too-dark")
              /\ BigRatLess(blurVariance[1], BLUR_THRESHOLD) <=> Reported("blurry")
        /\ Input = Solid(100, 100, Gray(128)) =>
              Verdict = [isOk |-> FALSE, issues |-> <<"low-resolution", "blurry">>]

\* the 100 x 100 solid gray image: low resolution, then found blurry
C9_Witness ==
    /\ Returned /\ ctx = "2d"
    /\ Input = Solid(100, 100, Gray(128))
    /\ brightness # NoValue /\ blurVariance # NoValue
    /\ Verdict = [isOk |-> FALSE, issues |-> <<"low-resolution", "blurry">>]

\* C10: a black and white one-pixel checkerboard analysed at its natural
\* size, both sides between 300 and 500, returns issues [] and isOk true:
\* its mean is at least 70 and its Laplacian variance at least 100
BlackWhiteChecker(b) ==
    /\ b.valid /\ b.kind = "checker"
    /\ {b.c1, b.c2} = {Black, White}
    /\ 300 <= b.naturalWidth /\ b.naturalWidth <= MAX_ANALYSIS_SIDE
    /\ 300 <= b.naturalHeight /\ b.naturalHeight <= MAX_ANALYSIS_SIDE

C10_CheckerboardAccepted ==
    Returned /\ BlackWhiteChecker(Input) =>
        /\ Verdict = Accepting
        /\ ctx = "2d" =>
              /\ canvas = Some([width |-> Input.naturalWidth,
                                 height |-> Input.naturalHeight])
              /\ brightness # NoValue
              /\ ~RatLess(brightness[1], DARKNESS_THRESHOLD)
              /\ blurVariance # NoValue
              /\ ~BigRatLess(blurVariance[1], BLUR_THRESHOLD)

\* a 400 x 300 checkerboard analysed with a context and accepted
C10_Witness ==
    /\ Returned /\ ctx = "2d"
    /\ Input = Checker(400, 300, Black, White)
    /\ blurVariance # NoValue
    /\ Verdict = Accepting

\* --------------------------------------------------- the analysis raster
\* the longest natural side of the decoded image
Longest == Max(img[1].naturalWidth, img[1].naturalHeight)

\* side * scale for scale = min(1, 500 / Longest), rounded to the nearest
\* integer and cut to an integer
RoundedSide(side) ==
    IF Longest <= 500 THEN side ELSE (2 * side * 500 + Longest) \div (2 * Longest)
TruncatedSide(side) ==
    IF Longest <= 500 THEN side ELSE (side * 500) \div Longest

\* C15 as stated: the analysis raster is round(nativeWidth * scale) by
\* round(nativeHeight * scale)
C15_RasterSidesRounded ==
    Returned /\ Decoded =>
        canvas = Some([width |-> RoundedSide(img[1].naturalWidth),
                       height |-> RoundedSide(img[1].naturalHeight)])

\* C15 amended: the analysis raster is nativeWidth * scale by
\* nativeHeight * scale with scale = min(1, 500 / max(nativeWidth,
\* nativeHeight)), fractional sides cut to the integer below, not rounded
\* (native 1000 x 333 is analysed at 500 x 166)
C15_RasterSidesTruncated ==
    Returned /\ Decoded =>
        /\ canvas = Some([width |-> TruncatedSide(img[1].naturalWidth),
                          height |-> TruncatedSide(img[1].naturalHeight)])
        /\ Input = Solid(1000, 333, Gray(128)) =>
              canvas = Some([width |-> 500, height |-> 166])

\* the 1000 x 333 image on its 500 x 166 canvas
C15_Witness ==
    /\ Returned /\ Decoded
    /\ img = Some([naturalWidth |-> 1000, naturalHeight |-> 333])
    /\ canvas = Some([width |-> 500, height |-> 166])
    /\ RoundedSide(333) = 167

\* C16: no side of the analysis raster is longer than 500, and an image
\* whose natural sides are both at most 500 is analysed at its natural size
C16_RasterAtMost500 ==
    Returned /\ Decoded =>
        /\ canvas # NoValue
        /\ canvas[1].width <= 500 /\ canvas[1].height <= 500
        /\ img[1].naturalWidth <= 500 /\ img[1].naturalHeight <= 500 =>
              canvas = Some([width |-> img[1].naturalWidth,
                             height |-> img[1].naturalHeight])

\* a 400 x 300 image analysed at 400 x 300
C16_Witness ==
    /\ Returned /\ Decoded /\ ctx = "2d"
    /\ img = Some([naturalWidth |-> 400, naturalHeight |-> 300])
    /\ canvas = Some([width |-> 400, height |-> 300])
    /\ brightness # NoValue

\* C17: when no 2D context is obtained the verdict is that of the
\* resolution check alone: issues [] or ['low-resolution'], isOk exactly
\* when the natural size is at least 300 x 300, nothing measured
C17_NoContextResolutionOnly ==
    Returned /\ ctx = "null" =>
        /\ promise.status = "fulfilled"
        /\ Issues = IF BelowMinimum THEN <<"low-resolution">> ELSE <<>>
        /\ Verdict.isOk <=> ~BelowMinimum
        /\ brightness = NoValue /\ blurVariance = NoValue

\* a solid black 300 x 300 image accepted for want of a context
C17_Witness ==
    /\ Returned /\ ctx = "null"
    /\ Input = Solid(300, 300, Black)
    /\ Verdict = Accepting

\* C18 as stated: a load failure and a missing drawing context are both
\* answered with the accepting verdict, whatever the natural size
C18_FailuresAccepted ==
    Returned /\ (~Input.valid \/ ctx = "null") => Verdict = Accepting

\* C18 amended: an image that fails to load is answered with the accepting
\* verdict {isOk: true, issues: []}; a missing drawing context is not: the
\* verdict is then the accepting one only if the natural size is at least
\* 300 x 300, and {isOk: false, issues: ['low-resolution']} otherwise
C18_LoadFailureAcceptedContextNot ==
    Returned /\ promise.status = "fulfilled" =>
        /\ ~Input.valid => Verdict = Accepting
        /\ ctx = "null" /\ ~BelowMinimum => Verdict = Accepting
        /\ ctx = "null" /\ BelowMinimum =>
              Verdict = [isOk |-> FALSE, issues |-> <<"low-resolution">>]

\* a 100 x 100 image without a context: rejected for its resolution
C18_Witness ==
    /\ Returned /\ ctx = "null"
    /\ Input = Solid(100, 100, Gray(128))
    /\ Verdict = [isOk |-> FALSE, issues |-> <<"low-resolution">>]

\* ------------------------------------------------------------ the Laplacian
\* the gray buffer and the Laplacian of the raster of the returned call
RasterWidth == canvas[1].width
RasterHeight == canvas[1].height
RasterGray ==
    GrayBuffer(getImageData(Input, RasterWidth, RasterHeight),
               RasterWidth, RasterHeight)
RasterLaplacian == LaplacianBuffer(RasterGray, RasterWidth, RasterHeight)

\* C19: the Laplacian entry of an interior pixel (1 <= x <= width - 2,
\* 1 <= y <= height - 2) is 4 gray(x, y) - gray(x, y-1) - gray(x, y+1)
\* - gray(x-1, y) - gray(x+1, y), read inside the raster; every border entry
\* is 0; a raster less than 3 wide or high has an all-zero Laplacian
C19_LaplacianEntries ==
    Returned /\ ctx = "2d" /\ RasterHasPixels =>
        LET w == RasterWidth
            h == RasterHeight
            gray == RasterGray
            L == LaplacianBuffer(gray, w, h)
            Inside(x, y) == 0 <= x /\ x < w /\ 0 <= y /\ y < h
            g(x, y) == gray[y * w + x + 1]
        IN  /\ Len(L) = w * h
            /\ \A y \in 0..(h - 1) : \A x \in 0..(w - 1) :
                  IF 1 <= x /\ x <= w - 2 /\ 1 <= y /\ y <= h - 2
                  THEN /\ Inside(x, y - 1) /\ Inside(x, y + 1)
                       /\ Inside(x - 1, y) /\ Inside(x + 1, y)
                       /\ L[y * w + x + 1] =
                             4 * g(x, y) - g(x, y - 1) - g(x, y + 1)
                             - g(x - 1, y) - g(x + 1, y)
                  ELSE L[y * w + x + 1] = 0
            /\ w < 3 \/ h < 3 => \A k \in 1..(w * h) : L[k] = 0

\* the 3 x 3 black raster with a white centre: the one interior entry is
\* 4 * 255, the border entries are 0
C19_Witness ==
    /\ Returned /\ ctx = "2d"
    /\ Input = Bitmap(3, 3, <<Black, Black, Black, Black, White, Black,
                              Black, Black, Black>>)
    /\ RasterLaplacian = <<0, 0, 0, 0, 1020, 0, 0, 0, 0>>

\* C20: with n = width * height, the mean is the sum S of the (interior)
\* Laplacian values over n, and the variance is the sum over all n entries
\* of (L - S / n)^2 over n, which is (sum of L^2) / n - (S / n)^2; the
\* count of interior pixels is no denominator.  With the variance held as
\* num / n^3 the equation reads num + n S^2 = n^2 (sum of L^2).
C20_VarianceOverFullGrid ==
    Returned /\ ctx = "2d" /\ RasterHasPixels =>
        LET n == RasterWidth * RasterHeight
            L == RasterLaplacian
            S == SumOver(L, 1, n)
            squares == BigSumOver(TypedArray([k \in 1..n |-> BigSquare(L[k])]), 1, n)
        IN  /\ blurVariance # NoValue
            /\ blurVariance[1].den = BigTimes(BigTimes(BigOfNat(n), n), n)
            /\ BigAdd(blurVariance[1].num, BigTimes(BigSquare(S), n))
                  = BigTimes(BigTimes(squares, n), n)

\* the 3 x 3 raster with one interior entry 1020: mean 1020 / 9, variance
\* 1020^2 / 9 - (1020 / 9)^2 = 74908800 / 729
C20_Witness ==
    /\ Returned /\ ctx = "2d"
    /\ Input = Bitmap(3, 3, <<Black, Black, Black, Black, White, Black,
                              Black, Black, Black>>)
    /\ blurVariance = Some([num |-> BigOfNat(74908800), den |-> BigOfNat(729)])

\* ------------------------------------------------------- two calls compared
BothReturned == pc = "returned" /\ concurrent.pc = "returned"

Alone(b64, context) ==
    checkImageQuality(loadImage(b64), context # "null").promise

VerdictRead == handler.pc = "checkImageQuality" /\ handler'.pc = "done"

\* the pieces of an error string that are the localized message of an issue
IssueMessages(message) ==
    SelectSeq(message,
              LAMBDA piece :
                  \E issue \in {"low-resolution", "too-dark", "blurry"} :
                      piece = t(qualityErrorKey(issue), ""))

\* C13: when checkImageQuality returns isOk = false, the handler that
\* awaited it (handleImageFile or processProvidedImage) ends in
\* AppState.ERROR with one error string that lists one localized message per
\* issue, in the order of the verdict; targetImage and sourceImage are left
\* as they were and the workflow does not move on to the handler's next state
C13_RejectedImageNotStored ==
    [][VerdictRead /\ promise.status = "fulfilled" /\ ~promise.value[1].isOk
          => /\ appState' = "ERROR"
             /\ appState' # handler.nextState
             /\ error' # NoValue
             /\ Len(IssueMessages(error'[1])) = Len(promise.value[1].issues)
             /\ \A k \in 1..Len(promise.value[1].issues) :
                   IssueMessages(error'[1])[k] =
                       t(qualityErrorKey(promise.value[1].issues[k]), "")
             /\ targetImage' = targetImage
             /\ sourceImage' = sourceImage]_vars

\* a dark pixel fetched from a URL as the source image: three issues, three
\* messages, the target image kept and no source image stored
C13_Witness ==
    /\ handler.name = "handleUrlSubmit"
    /\ handler.pc = "done"
    /\ handler.qualityResult =
          Some([isOk |-> FALSE,
                issues |-> <<"low-resolution", "too-dark", "blurry">>])
    /\ appState = "ERROR"
    /\ error = Some(<<t("imageQualityError", ""), Literal(": "),
                      t("qualityErrorLowresolution", ""), Literal(", "),
                      t("qualityErrorToodark", ""), Literal(", "),
                      t("qualityErrorBlurry", ""),
                      Literal(". "), t("qualityErrorSuggestion", "")>>)
    /\ targetImage # NoValue
    /\ sourceImage = NoValue
    /\ ~isFetchingUrl

\* the blob that a handler holds is larger than 5 MiB
TooLarge(h) == h.blob # NoValue /\ h.blob[1].size > 5 * 1024 * 1024

\* C14: an image larger than 5 MiB that reaches the caller by file upload,
\* URL fetch or clipboard paste is rejected before checkImageQuality is
\* called: the step in which the handler gets hold of it ends the handler
\* in AppState.ERROR with the file-too-large message, no call of
\* checkImageQuality starts for it, and no image is stored
C14_TooLargeRejectedBeforeAnalysis ==
    [][/\ handler' # handler /\ TooLarge(handler')
          => /\ handler'.pc = "done"
             /\ ~handler'.called
             /\ appState' = "ERROR"
             /\ error' = Some(<<t("fileTooLargeError", "size: 5")>>)
             /\ targetImage' = targetImage
             /\ sourceImage' = sourceImage
             /\ UNCHANGED callVars
       /\ pc = "idle" /\ pc' = "loading" => ~TooLarge(handler')]_vars

\* a pasted image one byte above 5 MiB: refused although its pixels would
\* pass the quality check
C14_Witness ==
    /\ handler.name = "handlePasteFromClipboard"
    /\ handler.pc = "done"
    /\ handler.blob =
          Some(Blob(5 * 1024 * 1024 + 1, "image/png", TRUE,
                    Checker(300, 32000, Black, White)))
    /\ ~handler.called
    /\ appState = "ERROR"
    /\ error = Some(<<t("fileTooLargeError", "size: 5")>>)
    /\ sourceImage = NoValue
    /\ ~isPasting

\* ------------------------------------------------------------ the gray value
\* the pixels of the raster of the returned call, and a thousand times the
\* luma 0.299 R + 0.587 G + 0.114 B of a pixel
RasterData == getImageData(Input, RasterWidth, RasterHeight)
Luma1000(pixel) == 299 * pixel[1] + 587 * pixel[2] + 114 * pixel[3]

\* C21 as stated: the gray value of every pixel is the luma itself, with no
\* rounding
C21_GrayIsExactLuma ==
    Returned /\ ctx = "2d" /\ RasterHasPixels =>
        LET data == RasterData
            gray == RasterGray
        IN  \A k \in 1..(RasterWidth * RasterHeight) :
                1000 * gray[k] = Luma1000(data[k])

\* C21: the gray value of every pixel is the luma 0.299 R + 0.587 G +
\* 0.114 B (not the average of the channels) brought to the nearest integer
\* of 0..255, a tie going to the even one: the value that the
\* Uint8ClampedArray stores
C21_GrayIsRoundedLuma ==
    Returned /\ ctx = "2d" /\ RasterHasPixels =>
        LET data == RasterData
            gray == RasterGray
        IN  /\ Len(gray) = RasterWidth * RasterHeight
            /\ \A k \in 1..(RasterWidth * RasterHeight) :
                  LET d == 1000 * gray[k] - Luma1000(data[k])
                  IN  /\ gray[k] \in 0..255
                      /\ \/ -500 < d /\ d < 500
                         \/ (d = 500 \/ d = -500) /\ gray[k] % 2 = 0

\* a red strip: luma 76.245 in every pixel, gray value 76, where the average
\* of the channels is 85
C21_Witness ==
    /\ Returned /\ ctx = "2d"
    /\ Input = Solid(300, 32000, Red)
    /\ RasterWidth = 4 /\ RasterHeight = 500
    /\ Luma1000(RasterData[1]) = 76245
    /\ RasterGray[1] = 76

\* ------------------------------------------------- the permissive accept path
\* C22: when the image of an upload does not decode, checkImageQuality
\* accepts it and the quality step does not block it: the handler stores the
\* image with its setter and moves to its next state, ANALYZING_TARGET_IMAGE
\* for a target photo and SOURCE_IMAGE_UPLOADED for a garment source, not to
\* ERROR
C22_UndecodableImageStored ==
    [][VerdictRead /\ ~base64[1].valid
          => /\ promise = [status |-> "fulfilled", value |-> Some(Accepting)]
             /\ appState' # "ERROR"
             /\ handler.imageSetter = "setTargetImage" =>
                   /\ appState' = "ANALYZING_TARGET_IMAGE"
                   /\ targetImage' = base64
                   /\ sourceImage' = sourceImage
             /\ handler.imageSetter = "setSourceImage" =>
                   /\ appState' = "SOURCE_IMAGE_UPLOADED"
                   /\ sourceImage' = base64
                   /\ targetImage' = targetImage
             /\ handler.imageSetter \in {"setTargetImage", "setSourceImage"}]_vars

\* a file that is no image at all, uploaded as the target photo: stored, and
\* the people detection is due next
C22_Witness ==
    /\ handler.name = "handleImageFile"
    /\ handler.pc = "done"
    /\ handler.imageSetter = "setTargetImage"
    /\ handler.qualityResult = Some(Accepting)
    /\ targetImage = Some(Undecodable("garbage"))
    /\ appState = "ANALYZING_TARGET_IMAGE"
    /\ error = NoValue

\* ------------------------------------------------------------ the uploader
\* C23: a file reaches the upload handler through ImageUploader only if its
\* MIME type starts with 'image/', by drag-and-drop and by the file picker
\* alike
C23_OnlyImagesForwarded ==
    handler.name = "handleImageFile" => IsImageType(handler.input[1].type)

\* ------------------------------------- the App that keeps HISTORY_KEY

\* the keys of the database
SESSION_STATE_KEY == "virtualTryOnState"
HISTORY_KEY == "generationHistory"

\* saveData(id, data): the database after the put, the record of
\* HISTORY_KEY in the field history and that of SESSION_STATE_KEY in the
\* field session
saveData(id, data) ==
    IF id = HISTORY_KEY THEN [db EXCEPT !.history = data]
    ELSE [db EXCEPT !.session = data]

\* the effects have run for the state as it is, the history included
FlushedHistoryKey == Flushed /\ ~Changed({"history"})

\* the effect performVirtualTryOn of this version, which has the history
\* among its dependencies, runs and passes its test
performVirtualTryOnHistoryKey ==
    /\ Changed({"appState", "targetImage", "selectedPerson", "sourceImage",
                "sourceGarmentBox", "history"})
    /\ appState = "GENERATING"
    /\ AllInputs

\* the effects of this version after a render in which a dependency has
\* changed; a run of performVirtualTryOn keeps the history of its render
useEffectHistoryKey ==
    /\ ~FlushedHistoryKey
    /\ analyzeTargetImage => detection < MaxPending
    /\ performVirtualTryOnHistoryKey => Len(runs) < MaxRequests
    /\ effectsRan' = Deps
    /\ db' = IF ~Flushed /\ appState \in savableStates
             THEN saveData(SESSION_STATE_KEY, Some(stateToSave))
             ELSE db
    /\ detection' = IF analyzeTargetImage THEN detection + 1 ELSE detection
    /\ runs' = IF performVirtualTryOnHistoryKey
               THEN Append(runs, [pc |-> "generateVirtualTryOnImage",
                                  history |-> history])
               ELSE runs
    /\ loadingMessage' = IF performVirtualTryOnHistoryKey
                         THEN <<t("generatingImage", "")>>
                         ELSE IF analyzeTargetImage
                         THEN <<t("detectingPeople", "")>>
                         ELSE loadingMessage
    /\ generatedImage' = IF performVirtualTryOnHistoryKey THEN NoValue
                         ELSE generatedImage
    /\ error' = IF performVirtualTryOnHistoryKey THEN NoValue ELSE error
    /\ UNCHANGED <<appState, targetImage, sourceImage, detectedPeople,
                   selectedPerson, sourceGarmentBox, history, isFetchingUrl,
                   isPasting, handler, mounted>>
    /\ UNCHANGED <<callVars, concurrent, uploader>>

\* the text of a caught value: the message of an Error, else String(err)
detailedError(err) == Literal(err.message)

\* detectPeopleInImage settles and analyzeTargetImage of this version goes on
DetectionSettlesHistoryKey(outcome) ==
    /\ FlushedHistoryKey
    /\ detection > 0
    /\ detection' = detection - 1
    /\ loadingMessage' = <<>>
    /\ IF outcome.completion = "return" /\ Len(outcome.value[1]) > 0
       THEN /\ detectedPeople' = outcome.value[1]
            /\ appState' = "TARGET_PERSON_CHOOSING"
            /\ UNCHANGED error
       ELSE /\ error' = Some(IF outcome.completion = "return"
                             THEN <<t("noPeopleDetectedError", "")>>
                             ELSE IF outcome.value[1].instanceofError
                             THEN <<t("detectionFailedError", ""), Literal(": "),
                                    Literal(outcome.value[1].message)>>
                             ELSE <<t("detectionFailedError", "")>>)
            /\ appState' = "ERROR"
            /\ UNCHANGED detectedPeople
    /\ UNCHANGED <<targetImage, sourceImage, selectedPerson, isFetchingUrl,
                   isPasting, handler>>
    /\ UNCHANGED <<callVars, concurrent, uploader, Workflow>>

\* the catch block of performVirtualTryOn of this version
performVirtualTryOnCatch(err) ==
    <<t("generationFailedError", ""), Literal(" ["), detailedError(err),
      Literal("]")>>

\* generateVirtualTryOnImage settles for run i of this version: the image is
\* shown, the item is put in front of the history of the run's render, and
\* saveData is awaited; or the catch block runs
GenerationSettlesHistoryKey(i, outcome) ==
    /\ FlushedHistoryKey
    /\ i \in DOMAIN runs
    /\ runs[i].pc = "generateVirtualTryOnImage"
    /\ IF outcome.completion = "return"
       THEN /\ generatedImage' = outcome.value
            /\ history' = <<"newHistoryItem">> \o runs[i].history
            /\ runs' = [runs EXCEPT ![i] =
                           [pc |-> "saveData",
                            history |-> <<"newHistoryItem">> \o runs[i].history]]
            /\ UNCHANGED <<appState, error, loadingMessage>>
       ELSE /\ error' = Some(performVirtualTryOnCatch(outcome.value[1]))
            /\ appState' = "ERROR"
            /\ loadingMessage' = <<>>
            /\ runs' = Remove(runs, i)
            /\ UNCHANGED <<generatedImage, history>>
    /\ UNCHANGED <<targetImage, sourceImage, detectedPeople, selectedPerson,
                   isFetchingUrl, isPasting, handler, detection>>
    /\ UNCHANGED <<sourceGarmentBox, db, effectsRan, mounted>>
    /\ UNCHANGED <<callVars, concurrent, uploader>>

\* saveData(HISTORY_KEY, updatedHistory) settles for run i, before or after
\* the render that setGeneratedImage and setHistory have asked for
SaveDataSettles(i, outcome) ==
    /\ Flushed
    /\ i \in DOMAIN runs
    /\ runs[i].pc = "saveData"
    /\ runs' = Remove(runs, i)
    /\ loadingMessage' = <<>>
    /\ IF outcome.completion = "return"
       THEN /\ db' = saveData(HISTORY_KEY, runs[i].history)
            /\ appState' = "RESULT_READY"
            /\ UNCHANGED error
       ELSE /\ error' = Some(performVirtualTryOnCatch(outcome.value[1]))
            /\ appState' = "ERROR"
            /\ UNCHANGED db
    /\ UNCHANGED <<targetImage, sourceImage, detectedPeople, selectedPerson,
                   isFetchingUrl, isPasting, handler, detection>>
    /\ UNCHANGED <<sourceGarmentBox, generatedImage, history, effectsRan,
                   mounted>>
    /\ UNCHANGED <<callVars, concurrent, uploader>>

\* this version from the upload to the result
NextHistoryKey ==
    \/ FlushedHistoryKey /\ \E file \in FlowBlobs : handleFileChange(file)
    \/ FlushedHistoryKey /\ FileReaderOnload
    \/ FlushedHistoryKey /\ ImageOnerror /\ UNCHANGED <<concurrent, appVars>>
    \/ FlushedHistoryKey /\ QualitySettled
    \/ useEffectHistoryKey
    \/ \E apiKeyAvailable \in BOOLEAN, reply \in DetectionReplies :
          DetectionSettlesHistoryKey(detectPeopleInImage(apiKeyAvailable, reply))
    \/ FlushedHistoryKey /\ \E person \in {"person"} : handlePersonSelected(person)
    \/ FlushedHistoryKey /\ \E useSameImage \in BOOLEAN :
          handleSourceTypeSelection(useSameImage)
    \/ FlushedHistoryKey /\ \E box \in {"box"} : handleGarmentBoxDrawn(box)
    \/ FlushedHistoryKey /\ handleGenerateClick
    \/ \E i \in 1..MaxRequests, apiKeyAvailable \in BOOLEAN,
          reply \in GenerationReplies :
          GenerationSettlesHistoryKey(i, generateVirtualTryOnImage(apiKeyAvailable, reply))
    \/ \E i \in 1..MaxRequests, outcome \in StorageOutcomes :
          SaveDataSettles(i, outcome)

SpecHistoryKey == Init /\ [][NextHistoryKey]_vars

\* --------------------------------------------------------- the generation

\* a step in which performVirtualTryOn calls generateVirtualTryOnImage
GenerationStarts == Len(runs') > Len(runs)

\* C24: generateVirtualTryOnImage is called only in GENERATING with the four
\* inputs there and after handleGenerateClick, which is the one step that
\* leads from GARMENT_SELECTED to GENERATING; the GENERATING that an upload
\* handler sets for its quality check starts no generation
C24_GenerationOnlyAfterClick ==
    [][GenerationStarts =>
          /\ appState = "GENERATING"
          /\ AllInputs
          /\ effectsRan.appState = "GARMENT_SELECTED"]_vars

\* ----------------------------------------------------------- the Start Over

\* the state that handleReset leaves: the start of the workflow, nothing
\* chosen, nothing shown, nothing stored
AfterReset ==
    /\ appState = "IDLE"
    /\ targetImage = NoValue
    /\ sourceImage = NoValue
    /\ selectedPerson = NoValue
    /\ sourceGarmentBox = NoValue
    /\ generatedImage = NoValue
    /\ detectedPeople = <<>>
    /\ error = NoValue
    /\ loadingMessage = <<>>
    /\ history = <<>>
    /\ db = EmptyDb
    /\ mounted = "loaded"

\* the five fields that the workflow fills are null at its start
Cleared ==
    /\ appState = "IDLE"
    /\ targetImage = NoValue
    /\ sourceImage = NoValue
    /\ selectedPerson = NoValue
    /\ sourceGarmentBox = NoValue
    /\ generatedImage = NoValue

\* C25: from the state that Start Over leaves, the App stays in IDLE with
\* targetImage, sourceImage, selectedPerson, sourceGarmentBox and
\* generatedImage null until an upload handler starts, whatever was in flight
C25_StaysClearedUntilUpload ==
    [][AfterReset /\ ~Cleared' => handler.pc = "done" /\ handler'.pc # "done"]_vars

\* ------------------------------------------------- one request per entry

\* C26: in the version that keeps HISTORY_KEY, generateVirtualTryOnImage is
\* called once for an entry into GENERATING: a run of performVirtualTryOn
\* starts only after a render that has entered GENERATING, never after one
\* that the run's own setGeneratedImage and setHistory have caused
C26_OneRequestPerEntry ==
    [][GenerationStarts => effectsRan.appState # "GENERATING"]_vars

\* ------------------------------------------------------------ the Back

\* the number of a member of enum AppState
Ordinal(state) == CHOOSE k \in DOMAIN AppState : AppState[k] = state

\* the number of presses of Back that lead from state to IDLE
RECURSIVE Presses(_)
Presses(state) ==
    IF state = "IDLE" THEN 0 ELSE 1 + Presses(handleBackSwitch(state))

\* C27: a press of Back, in each of the seven states that show the button,
\* leads to a strictly earlier state of the workflow, which is neither
\* GENERATING nor ANALYZING_TARGET_IMAGE, with error null, and from which one
\* press less leads to IDLE; at most 5 presses are needed
C27_BackLeadsToIdle ==
    [][handleBack =>
          /\ appState \in statesWithBackButton
          /\ Ordinal(appState') < Ordinal(appState)
          /\ appState' \notin {"GENERATING", "ANALYZING_TARGET_IMAGE"}
          /\ error' = NoValue
          /\ Presses(appState) <= 5
          /\ Presses(appState') = Presses(appState) - 1
          /\ \A state \in statesWithBackButton : Presses(state) <= 5]_vars

\* Back has led from the result to the garment
C27_Witness ==
    /\ appState = "GARMENT_SELECTED"
    /\ generatedImage = NoValue
    /\ sourceGarmentBox # NoValue
    /\ history # <<>>
    /\ error = NoValue
    /\ uploader # "none"

\* ------------------------------------------------------ the saved session

\* loadInitialData puts a saved session back in this step
Restores ==
    /\ mounted = "loading"
    /\ mounted' = "loaded"
    /\ loadSession # NoValue

\* the five states of the workflow that wait for the user
WaitingStates ==
    {"TARGET_PERSON_CHOOSING", "TARGET_PERSON_SELECTED", "SOURCE_TYPE_CHOSEN",
     "SOURCE_IMAGE_UPLOADED", "GARMENT_SELECTED"}

\* C28: the session in the database was saved in one of the five waiting
\* states; so the step that restores it leaves the App in one of them, not
\* in IDLE, ANALYZING_TARGET_IMAGE, GENERATING, RESULT_READY or ERROR, and
\* the effects of the render that follows call neither detectPeopleInImage
\* nor generateVirtualTryOnImage
C28_SessionOfWaitingStates ==
    [][/\ db'.session # NoValue => db'.session[1].appState \in WaitingStates
       /\ Restores =>
             /\ appState' = loadSession[1].appState
             /\ appState' \in WaitingStates
             /\ ~analyzeTargetImage'
             /\ ~performVirtualTryOn']_vars

\* a session has been restored with everything that a generation needs
C28_Witness ==
    /\ mounted = "loaded"
    /\ uploader = "none"
    /\ appState = "GARMENT_SELECTED"
    /\ AllInputs
    /\ runs = <<>>
    /\ detection = 0
    /\ Flushed

\* ------------------------------------------------------------ urlToBase64

\* urlToBase64 has rejected in this step: the handler of the URL ends
\* without a call of checkImageQuality
UrlRejected ==
    /\ handler.name = "handleUrlSubmit"
    /\ handler.pc # "done"
    /\ handler'.pc = "done"
    /\ ~handler'.called

\* urlToBase64 has resolved in this step: the handler calls checkImageQuality
UrlResolved ==
    /\ handler.name = "handleUrlSubmit"
    /\ ~handler.called
    /\ handler'.called

\* the response is ok and its body has arrived
BodyArrived(response) == response.fetch = "ok" /\ response.body = "resolved"

\* C29: urlToBase64 resolves only for a response that is ok, whose blob is
\* not larger than maxSize and whose type starts with image/; it rejects
\* with FILE_TOO_LARGE, which the handler shows as the file-too-large text,
\* when the response is ok and the blob is larger, whatever its type; and
\* with the one general message in every other case
C29_UrlToBase64Outcomes ==
    [][LET response == handler.input[1]
       IN  /\ UrlResolved =>
                 /\ BodyArrived(response)
                 /\ response.blob.size <= 5 * 1024 * 1024
                 /\ IsImageType(response.blob.type)
           /\ UrlRejected =>
                 error' = Some(IF /\ BodyArrived(response)
                                  /\ response.blob.size > 5 * 1024 * 1024
                               THEN <<t("fileTooLargeError", "size: 5")>>
                               ELSE CouldNotFetch)]_vars

\* a page of text has been fetched and refused with the general message
C29_Witness ==
    /\ handler.name = "handleUrlSubmit"
    /\ handler.pc = "done"
    /\ ~handler.called
    /\ BodyArrived(handler.input[1])
    /\ handler.input[1].blob.size <= 5 * 1024 * 1024
    /\ ~IsImageType(handler.input[1].blob.type)
    /\ appState = "ERROR"
    /\ error = Some(CouldNotFetch)

\* --------------------------------------------------- the service's errors

\* the keys of the texts for the failures of the service
ServiceKeys ==
    {"errorApiKeyMissing", "errorSafetyBlock", "errorGenerationNoImage",
     "errorQuotaExceeded", "errorInvalidApiKey", "errorGenericApi"}

\* a rejection of the service is an Error whose message is one of the keys
RejectsWithKey(outcome) ==
    outcome.completion = "throw" =>
        /\ outcome.value[1].instanceofError
        /\ outcome.value[1].message \in ServiceKeys

\* a detection or a generation has ended in the catch block of its effect
ServiceRejected ==
    /\ \/ detection' < detection
       \/ \E i \in DOMAIN runs :
             /\ runs[i].pc = "generateVirtualTryOnImage"
             /\ runs' = Remove(runs, i)
    /\ appState' = "ERROR"
    /\ error' # Some(<<t("noPeopleDetectedError", "")>>)

\* C30: detectPeopleInImage and generateVirtualTryOnImage reject only with
\* an Error whose message is one of the six keys, for every answer and
\* failure of the Gemini client, so the effects show the text of one of
\* these keys; the three keys thrown inside come out of parseGeminiError as
\* they went in, and what it does not know becomes errorGenericApi
C30_ServiceRejectsWithKeys ==
    /\ [](\A apiKeyAvailable \in BOOLEAN :
            /\ \A reply \in DetectionReplies :
                  RejectsWithKey(detectPeopleInImage(apiKeyAvailable, reply))
            /\ \A reply \in GenerationReplies :
                  RejectsWithKey(generateVirtualTryOnImage(apiKeyAvailable, reply)))
    /\ [](\A e \in GeminiFailures :
            /\ e.instanceofError /\ e.message.key \in internalKeys
                  => parseGeminiError(e) = e.message.key
            /\ ~e.instanceofError => parseGeminiError(e) = "errorGenericApi"
            /\ e = Error(Plain("", {})) => parseGeminiError(e) = "errorGenericApi")
    /\ [][ServiceRejected =>
             \E key \in ServiceKeys : error' = Some(<<t(key, "")>>)]_vars

\* the effect shows that the quota is used up
C30_Witness ==
    /\ appState = "ERROR"
    /\ error = Some(<<t("errorQuotaExceeded", "")>>)

====
